---- MODULE Spec2Model ----
(***************************************************************************)
(* A model of the core of jorige3/kalyan: the validation logger            *)
(* (src/src/analysis/validation.py, src/src/engine/calendar.py), the       *)
(* scoring function (src/main.py), the Monte Carlo estimator               *)
(* (src/src/analysis/monte_carlo.py), the analyzers (hot_cold.py,          *)
(* trend_window.py, sangam_analysis.py), the helpers of cycle_analyzer.py, *)
(* explain_pick (explainability.py) and the walk-forward backtester        *)
(* (src/src/analysis/backtester.py).                                       *)
(*                                                                         *)
(* Dates are day numbers 1..MaxDay; day 1 is 2024-01-05, a Friday, so day  *)
(* 3 is a Sunday.  Python's None is the empty sequence <<>>, an optional   *)
(* value v is <<v>>.  Scores are kept as integers, in twentieths of the    *)
(* Python value, so that 0.5, 0.75, 1.2 and 2.5 are exact.                 *)
(***************************************************************************)
EXTENDS Integers, Sequences, FiniteSets, TLC

VARIABLES
    history,   \* the DataFrame of daily records, ascending by date
    reports,   \* reports_dir: day -> <<>> (no file) or <<snapshot>>
    log,       \* the validation log file: [exists, lines]
    ret,       \* what the last validate_latest_game call returned
    msg,       \* what that call passed to logging
    proc,      \* the concurrent validate_latest_game executions
    sc,        \* the scoring run: its input and its output
    mc,        \* the Monte Carlo analyzer and its last result
    an,        \* the analyzers built over a history
    bt         \* the Backtester object and its run

vars == <<history, reports, log, ret, msg, proc, sc, mc, an, bt>>

-----------------------------------------------------------------------------
(* Bounds of the model *)

\* days of the modelled calendar
MaxDay == 4
\* lines the validation log may grow to
MaxLog == 3

Days == 1..MaxDay

-----------------------------------------------------------------------------
(* Dates: datetime.weekday, strftime("%Y-%m-%d") *)

DateStrs ==
    << "2024-01-05", "2024-01-06", "2024-01-07", "2024-01-08", "2024-01-09",
       "2024-01-10", "2024-01-11", "2024-01-12", "2024-01-13", "2024-01-14" >>

\* date.weekday(): Monday = 0 ... Sunday = 6; day 1 is Friday 2024-01-05
Weekday(d) == (d + 3) % 7

\* date.strftime("%Y-%m-%d")
DateStr(d) == DateStrs[d]

\* the date a "%Y-%m-%d" string denotes (0 when it is none of the calendar's)
ParseDate(s) ==
    IF \E d \in 1..Len(DateStrs) : DateStrs[d] = s
    THEN CHOOSE d \in 1..Len(DateStrs) : DateStrs[d] = s
    ELSE 0

\* jodi values as a CSV column read without dtype=str gives them
RawJodis == {"5", "12"}

-----------------------------------------------------------------------------
(* src/src/engine/calendar.py *)

is_kalyan_game_day(d) == Weekday(d) # 6

RECURSIVE FindLastFrom(_, _)
FindLastFrom(rows, k) ==
    IF k = 0 THEN <<>>
    ELSE IF is_kalyan_game_day(rows[k].date) THEN <<rows[k]>>
    ELSE FindLastFrom(rows, k - 1)

find_last_game_row(rows) == FindLastFrom(rows, Len(rows))

RECURSIVE FindPrevFrom(_, _, _)
FindPrevFrom(rows, target, k) ==
    IF k = 0 THEN <<>>
    ELSE IF rows[k].date < target /\ is_kalyan_game_day(rows[k].date)
         THEN <<rows[k]>>
    ELSE FindPrevFrom(rows, target, k - 1)

RECURSIVE FindPrevFromNotStrict(_, _, _)
FindPrevFromNotStrict(rows, target, k) ==
    IF k = 0 THEN <<>>
    ELSE IF rows[k].date <= target /\ is_kalyan_game_day(rows[k].date)
         THEN <<rows[k]>>
    ELSE FindPrevFromNotStrict(rows, target, k - 1)

find_previous_game_row_not_strict(rows, before_date) ==
    FindPrevFromNotStrict(rows, before_date, Len(rows))

find_previous_game_row(rows, before_date) ==
    FindPrevFrom(rows, before_date, Len(rows))

-----------------------------------------------------------------------------
(* DataFrame.sort_values("date"): an insertion sort, stable *)

RECURSIVE InsertByDate(_, _)
InsertByDate(sorted, row) ==
    IF sorted = <<>> THEN <<row>>
    ELSE IF sorted[Len(sorted)].date <= row.date THEN Append(sorted, row)
    ELSE Append(InsertByDate(SubSeq(sorted, 1, Len(sorted) - 1), row),
                sorted[Len(sorted)])

RECURSIVE SortByDate(_)
SortByDate(rows) ==
    IF rows = <<>> THEN <<>>
    ELSE InsertByDate(SortByDate(SubSeq(rows, 1, Len(rows) - 1)), rows[Len(rows)])

-----------------------------------------------------------------------------
(* src/src/analysis/validation.py *)

\* the keys of the row dict, in insertion order: the CSV header
Header ==
    << "date", "prediction_date", "actual_jodi", "predicted_top5", "hit_rank",
       "top1_hit", "top3_hit", "top5_hit", "confidence", "report_path" >>

\* str(value).zfill(2)
normalize_jodi(value) ==
    IF Len(value) >= 2 THEN value
    ELSE IF Len(value) = 1 THEN "0" \o value
    ELSE "00"

\* report.get("daily_summary", {}).get("top_picks_with_confidence"), else
\* report.get("ranked_picks", [])
load_report_picks(report) ==
    IF report.top_picks # <<>> THEN report.top_picks ELSE report.ranked_picks

\* csv.DictReader's row.get(key): the cell under the last column named key
DictGet(fieldnames, line, key) ==
    LET idx == {i \in 1..Len(fieldnames) : fieldnames[i] = key /\ i <= Len(line)}
    IN  IF idx = {} THEN ""
        ELSE line[CHOOSE i \in idx : \A j \in idx : j <= i]

\* no date is taken as logged
no_logged_dates(file) == {}

\* the first line of the file is the reader's header, whatever it holds
load_logged_dates(file) ==
    IF ~file.exists THEN {}
    ELSE IF file.lines = <<>> THEN {}
    ELSE {DictGet(file.lines[1], file.lines[k], "date") :
              k \in 2..Len(file.lines)} \ {""}

\* str(int), str(bool) as csv.DictWriter writes them
IntStr(n) == << "0", "1", "2", "3", "4", "5", "6", "7", "8", "9" >>[n + 1]

BoolStr(b) == IF b THEN "True" ELSE "False"

RECURSIVE JoinComma(_)
JoinComma(strs) ==
    IF strs = <<>> THEN ""
    ELSE IF Len(strs) = 1 THEN strs[1]
    ELSE strs[1] \o "," \o JoinComma(Tail(strs))

RowCells(row) ==
    << row.date, row.prediction_date, row.actual_jodi, row.predicted_top5,
       IntStr(row.hit_rank), BoolStr(row.top1_hit), BoolStr(row.top3_hit),
       BoolStr(row.top5_hit), row.confidence, row.report_path >>

\* _append_validation_row once file_exists has been read
WriteRow(file, file_exists, row) ==
    [exists |-> TRUE,
     lines  |-> file.lines \o (IF file_exists THEN <<>> ELSE <<Header>>)
                           \o <<RowCells(row)>>]

append_validation_row(file, row) == WriteRow(file, file.exists, row)

\* picks, the slice forgotten
AllPicks(picks) == picks

\* picks[:5]
FirstFive(picks) == SubSeq(picks, 1, IF Len(picks) < 5 THEN Len(picks) ELSE 5)

\* lines 81-105: the row for actual day last_row from the picks of the snapshot
BuildRow(last_row, prev_row, picks) ==
    LET actual_date     == DateStr(last_row.date)
        prediction_date == DateStr(prev_row.date)
        five        == FirstFive(picks)
        top5        == [k \in 1..Len(five) |-> normalize_jodi(five[k].value)]
        actual_jodi == normalize_jodi(last_row.jodi)
        hits        == {k \in 1..Len(top5) : top5[k] = actual_jodi}
        first       == IF hits = {} THEN 0
                       ELSE CHOOSE k \in hits : \A j \in hits : k <= j
        hit_rank    == first
        confidence  == IF hits = {} THEN "Miss" ELSE five[first].confidence
    IN  [date            |-> actual_date,
         prediction_date |-> prediction_date,
         actual_jodi     |-> actual_jodi,
         predicted_top5  |-> JoinComma(top5),
         hit_rank        |-> hit_rank,
         top1_hit        |-> hit_rank = 1,
         top3_hit        |-> 1 <= hit_rank /\ hit_rank <= 3,
         top5_hit        |-> 1 <= hit_rank /\ hit_rank <= 5,
         confidence      |-> confidence,
         report_path     |-> "reports/kalyan_analysis_" \o prediction_date \o ".json"]

\* a missing snapshot read as an empty one
ReadReportOrEmpty(dir, d) ==
    IF dir[d] = <<>> THEN <<[top_picks |-> <<>>, ranked_picks |-> <<>>]>>
    ELSE dir[d]

\* lines 76-81: reports_dir / kalyan_analysis_<prediction_date>.json, <<>>
\* when report_path.exists() is false
ReadReport(dir, d) == dir[d]

\* validate_latest_game up to the read of the log: what it returns early, or
\* the two rows it goes on with
Locate(df) ==
    IF df = <<>> THEN [msg |-> "no data available", rows |-> <<>>]
    ELSE LET rows     == SortByDate(df)
             last_row == find_last_game_row(rows)
         IN  IF last_row = <<>>
             THEN [msg |-> "no game-day rows found", rows |-> <<>>]
             ELSE LET prev_row == find_previous_game_row(rows, last_row[1].date)
                  IN  IF prev_row = <<>>
                      THEN [msg |-> "no previous game-day row found", rows |-> <<>>]
                      ELSE [msg |-> "", rows |-> <<last_row[1], prev_row[1]>>]

\* the whole of validate_latest_game(df, reports_dir, log_path), run alone
Validate(df, dir, file) ==
    LET loc == Locate(df)
    IN  IF loc.rows = <<>>
        THEN [ret |-> <<>>, msg |-> loc.msg, log |-> file]
        ELSE LET last_row == loc.rows[1]
                 prev_row == loc.rows[2]
             IN  IF DateStr(last_row.date) \in load_logged_dates(file)
                 THEN [ret |-> <<>>, msg |-> "already logged", log |-> file]
                 ELSE LET report == ReadReport(dir, prev_row.date)
                      IN  IF report = <<>>
                          THEN [ret |-> <<>>, msg |-> "report not found",
                                log |-> file]
                          ELSE LET row == BuildRow(last_row, prev_row,
                                                   load_report_picks(report[1]))
                               IN  [ret |-> <<row>>, msg |-> "logged",
                                    log |-> append_validation_row(file, row)]

-----------------------------------------------------------------------------
(* The validation logger run alone: the history grows, snapshots are       *)
(* written, validate_latest_game is called                                 *)

Pick(v, c) == [value |-> v, confidence |-> c]

\* snapshots as write_analysis_snapshot lays them out: main() leaves
\* top_picks_with_confidence out of daily_summary and fills ranked_picks;
\* the snapshot of an even day is of the layout that has the former.  A
\* value may stand twice in a list, and a list may be longer than five.
SnapshotOf(d) ==
    IF d % 2 = 1
    THEN [top_picks |-> <<>>,
          ranked_picks |-> <<Pick("12", "High"), Pick("34", "High"),
                             Pick("12", "Low"), Pick("7", "Medium"),
                             Pick("5", "Low")>>]
    ELSE [top_picks |-> <<Pick("34", "High"), Pick("7", "High"),
                          Pick("12", "Medium"), Pick("8", "Low"),
                          Pick("9", "Low"), Pick("5", "Low")>>,
          ranked_picks |-> <<Pick("5", "High")>>]

\* a row logged before the modelled calendar starts
OldRow ==
    << "2024-01-04", "2024-01-03", "12", "12,05", "1", "True", "True", "True",
       "High", "reports/kalyan_analysis_2024-01-03.json" >>

\* the log file before the first call: absent, empty, header only, or
\* holding a row for another date
InitialLogs ==
    { [exists |-> FALSE, lines |-> <<>>],
      [exists |-> TRUE,  lines |-> <<>>],
      [exists |-> TRUE,  lines |-> <<Header>>],
      [exists |-> TRUE,  lines |-> <<Header, OldRow>>] }

NoReports == [d \in Days |-> <<>>]

IdleProc == <<>>
IdleSc   == <<>>
IdleMc   == <<>>
IdleAn   == <<>>
IdleBt   == <<>>

InitVal ==
    /\ history = <<>>
    /\ reports = NoReports
    /\ log \in InitialLogs
    /\ ret = <<>>
    /\ msg = ""
    /\ proc = IdleProc
    /\ sc = IdleSc
    /\ mc = IdleMc
    /\ an = IdleAn
    /\ bt = IdleBt

\* the loader hands over one more daily record, later than all it holds
AppendHistoryRow ==
    /\ \E d \in Days, j \in RawJodis :
          /\ (IF history = <<>> THEN TRUE ELSE history[Len(history)].date < d)
          /\ history' = Append(history, [date |-> d, jodi |-> j])
    /\ UNCHANGED <<reports, log, ret, msg, proc, sc, mc, an, bt>>

\* main() writes kalyan_analysis_<date>.json
WriteSnapshot ==
    /\ \E d \in Days :
          reports' = [reports EXCEPT ![d] = <<SnapshotOf(d)>>]
    /\ UNCHANGED <<history, log, ret, msg, proc, sc, mc, an, bt>>

ValidateLatestGame ==
    LET out == Validate(history, reports, log)
    IN  /\ Len(out.log.lines) <= MaxLog
        /\ ret' = out.ret
        /\ msg' = out.msg
        /\ log' = out.log
        /\ UNCHANGED <<history, reports, proc, sc, mc, an, bt>>

NextVal == AppendHistoryRow \/ WriteSnapshot \/ ValidateLatestGame

SpecVal == InitVal /\ [][NextVal]_vars

-----------------------------------------------------------------------------
(* The same logger started without a log file, as a fresh checkout has it  *)

InitLog ==
    /\ history = <<>>
    /\ reports = NoReports
    /\ log = [exists |-> FALSE, lines |-> <<>>]
    /\ ret = <<>>
    /\ msg = ""
    /\ proc = IdleProc
    /\ sc = IdleSc
    /\ mc = IdleMc
    /\ an = IdleAn
    /\ bt = IdleBt

SpecLog == InitLog /\ [][NextVal]_vars

-----------------------------------------------------------------------------
(* Two executions of validate_latest_game over the same history, reports   *)
(* and log file; each access to the file system is one step.  The code     *)
(* takes no lock: between the read of the log (line 71), the exists() of   *)
(* line 36 and the write of lines 37-41 the other execution may run.       *)

Procs == {1, 2}

\* the jodi drawn on day d in the histories of this specification
JodiOf(d) == IF d % 2 = 0 THEN "5" ELSE "12"

RECURSIVE HistoryOf(_)
HistoryOf(S) ==
    IF S = {} THEN <<>>
    ELSE LET m == CHOOSE d \in S : \A e \in S : e <= d
         IN  Append(HistoryOf(S \ {m}), [date |-> m, jodi |-> JodiOf(m)])

AllReports == [d \in Days |-> <<SnapshotOf(d)>>]

StartProc ==
    [pc |-> "start", row |-> <<>>, file_exists |-> FALSE, ret |-> <<>>, msg |-> ""]

Returned(pr, r, m) == [pr EXCEPT !.pc = "done", !.ret = r, !.msg = m]

InitConc ==
    /\ history \in {HistoryOf(S) : S \in SUBSET Days}
    /\ reports \in {NoReports, AllReports}
    /\ log \in InitialLogs
    /\ ret = <<>>
    /\ msg = ""
    /\ proc = [p \in Procs |-> StartProc]
    /\ sc = IdleSc
    /\ mc = IdleMc
    /\ an = IdleAn
    /\ bt = IdleBt

\* lines 53-74: locate the two draw days, read the log
VStart(p) ==
    /\ proc[p].pc = "start"
    /\ LET loc == Locate(history)
       IN  proc' = [proc EXCEPT ![p] =
              IF loc.rows = <<>> THEN Returned(@, <<>>, loc.msg)
              ELSE IF DateStr(loc.rows[1].date) \in load_logged_dates(log)
                   THEN Returned(@, <<>>, "already logged")
              ELSE [@ EXCEPT !.pc = "report"]]
    /\ UNCHANGED <<history, reports, log, ret, msg, sc, mc, an, bt>>

\* lines 76-105: read the snapshot, build the row
VReport(p) ==
    /\ proc[p].pc = "report"
    /\ LET loc    == Locate(history)
           report == ReadReport(reports, loc.rows[2].date)
       IN  proc' = [proc EXCEPT ![p] =
              IF report = <<>> THEN Returned(@, <<>>, "report not found")
              ELSE [@ EXCEPT !.pc = "exists",
                             !.row = <<BuildRow(loc.rows[1], loc.rows[2],
                                                load_report_picks(report[1]))>>]]
    /\ UNCHANGED <<history, reports, log, ret, msg, sc, mc, an, bt>>

\* line 36: file_exists = log_path.exists()
VExists(p) ==
    /\ proc[p].pc = "exists"
    /\ proc' = [proc EXCEPT ![p] = [@ EXCEPT !.pc = "write",
                                             !.file_exists = log.exists]]
    /\ UNCHANGED <<history, reports, log, ret, msg, sc, mc, an, bt>>

\* lines 37-41 and 107-109: append the header if the file was not there, then
\* the row; return the row
VWrite(p) ==
    /\ proc[p].pc = "write"
    /\ log' = WriteRow(log, proc[p].file_exists, proc[p].row[1])
    /\ proc' = [proc EXCEPT ![p] = Returned(@, proc[p].row, "logged")]
    /\ UNCHANGED <<history, reports, ret, msg, sc, mc, an, bt>>

NextConc == \E p \in Procs : VStart(p) \/ VReport(p) \/ VExists(p) \/ VWrite(p)

SpecConc == InitConc /\ [][NextConc]_vars

-----------------------------------------------------------------------------
(* src/main.py: generate_daily_summary_and_confidence.  Scores are in      *)
(* twentieths: Python's 1 is 20, 0.5 is 10, 2.5 is 50.  A signal map (a    *)
(* dict) is a function from its keys to their magnitudes; analysis_results *)
(* is a function from the keys it holds.                                   *)

\* largest occurrence count in a signal map
MaxCount == 5

Cands == {"12", "34"}

\* config.SCORING_WEIGHTS (config.py:38-49), in twentieths
SCORING_WEIGHTS ==
    [HIGH_FREQUENCY_JODI |-> 30, TREND_ALIGNED_JODI |-> 30,
     EXTENDED_ABSENCE_JODI |-> 15, EXHAUSTED_PATTERN_PENALTY |-> 0 - 50]

\* config.CONFIDENCE_THRESHOLDS (config.py:53-56), in twentieths
CONFIDENCE_THRESHOLDS == [HIGH |-> 50, MEDIUM |-> 20]

Has(d, key) == key \in DOMAIN d

RaisedKeyError(key) == [raised |-> TRUE, error |-> key, summary |-> <<>>]

\* lines 104-134: the score, the reasons and the confidence of one jodi
ScoreJodi(ar, jodi) ==
    LET hot   == Has(ar.hot_jodis, jodi)
        trend == Has(ar.trend_due_jodis, jodi)
        due   == Has(ar.due_cycles, jodi)
        exh   == Has(ar.exhausted_numbers, jodi)
        score == (IF hot THEN 20 ELSE 0) + (IF trend THEN 20 ELSE 0)
                 + (IF due THEN 10 ELSE 0) - (IF exh THEN 40 ELSE 0)
        reasons == (IF hot THEN <<"High Frequency">> ELSE <<>>)
                   \o (IF trend THEN <<"Trend-Aligned">> ELSE <<>>)
                   \o (IF due THEN <<"Extended Absence">> ELSE <<>>)
                   \o (IF exh THEN <<"Exhausted Pattern">> ELSE <<>>)
        confidence == IF score >= 40 THEN "High"
                      ELSE IF score >= 20 THEN "Medium"
                      ELSE "Low"
    IN  [jodi |-> jodi, score |-> score, confidence |-> confidence,
         reasons |-> reasons]

\* the same insertion, an equal score put before the ones already there
RECURSIVE InsertBeforeEqual(_, _)
InsertBeforeEqual(sorted, x) ==
    IF sorted = <<>> THEN <<x>>
    ELSE IF sorted[Len(sorted)].score > x.score THEN Append(sorted, x)
    ELSE Append(InsertBeforeEqual(SubSeq(sorted, 1, Len(sorted) - 1), x),
                sorted[Len(sorted)])

\* list.sort(key=score, reverse=True): stable, equal scores keep their order
RECURSIVE InsertByScore(_, _)
InsertByScore(sorted, x) ==
    IF sorted = <<>> THEN <<x>>
    ELSE IF sorted[Len(sorted)].score >= x.score THEN Append(sorted, x)
    ELSE Append(InsertByScore(SubSeq(sorted, 1, Len(sorted) - 1), x),
                sorted[Len(sorted)])

RECURSIVE SortByScore(_)
SortByScore(xs) ==
    IF xs = <<>> THEN <<>>
    ELSE InsertByScore(SortByScore(SubSeq(xs, 1, Len(xs) - 1)), xs[Len(xs)])

\* xs[:n]
Prefix(xs, n) == SubSeq(xs, 1, IF Len(xs) < n THEN Len(xs) ELSE n)

IsHigh(j) == j.confidence = "High"

IsMedium(j) == j.confidence = "Medium"

IsCaution(j) ==
    (\E k \in 1..Len(j.reasons) : j.reasons[k] = "Exhausted Pattern") /\ j.score > 0

AsSignal(j) == [type |-> "jodi", value |-> j.jodi, confidence |-> j.confidence]

AsCaution(j) == [value |-> j.jodi, reason |-> "Contradictory signal"]

\* lines 139-179: the summary from the sorted scores
Summarise(ar, scored_jodis) ==
    LET high      == SelectSeq(scored_jodis, IsHigh)
        contra    == SelectSeq(scored_jodis, IsCaution)
        strongest == [k \in 1..Len(high) |-> AsSignal(high[k])]
        with_digit == IF ar.hot_digits.items = <<>> THEN strongest
                      ELSE <<[type |-> "digit", value |-> ar.hot_digits.items[1],
                              confidence |-> "High"]>> \o strongest
        caution == [k \in 1..Len(contra) |-> AsCaution(contra[k])]
        num_high   == Len(high)
        num_medium == Len(SelectSeq(scored_jodis, IsMedium))
        market_mood == IF num_high > 0 \/ num_medium > 2 THEN "Active"
                       ELSE IF num_medium > 0 THEN "Neutral"
                       ELSE "Quiet"
        confidence_score == IF market_mood = "Active" THEN 7 + num_high
                            ELSE IF market_mood = "Neutral" THEN 5
                            ELSE 3
    IN  [market_mood |-> market_mood,
         strongest_signals |-> Prefix(with_digit, 3),
         caution_areas |-> Prefix(caution, 3),
         analytical_confidence_score |->
             IF confidence_score < 10 THEN confidence_score ELSE 10,
         top_picks_with_confidence |-> Prefix(scored_jodis, 5)]

\* line 100: the keys the union reads, in the order it reads them
UnionKeys == <<"hot_jodis", "due_cycles", "trend_due_jodis">>

MissingUnionKey(ar) ==
    LET missing == {k \in 1..Len(UnionKeys) : ~Has(ar, UnionKeys[k])}
    IN  IF missing = {} THEN ""
        ELSE UnionKeys[CHOOSE k \in missing : \A j \in missing : k <= j]

\* line 100: set(hot_jodis) | set(due_cycles) | set(trend_due_jodis)
AllJodis(ar) ==
    DOMAIN ar.hot_jodis \cup DOMAIN ar.due_cycles \cup DOMAIN ar.trend_due_jodis

\* the orders in which the set all_jodis may be iterated
Orders(S) ==
    {o \in [1..Cardinality(S) -> S] : \A i, j \in DOMAIN o : o[i] = o[j] => i = j}

\* generate_daily_summary_and_confidence(analysis_results), the set all_jodis
\* iterated in the given order; a missing key raises KeyError, and so does
\* hot_digits[0] on a non-empty dict, whose keys are strings
generate_daily_summary_and_confidence(ar, order) ==
    IF MissingUnionKey(ar) # "" THEN RaisedKeyError(MissingUnionKey(ar))
    ELSE IF order # <<>> /\ ~Has(ar, "exhausted_numbers")
    THEN RaisedKeyError("exhausted_numbers")
    ELSE IF ~Has(ar, "hot_digits") THEN RaisedKeyError("hot_digits")
    ELSE IF ~ar.hot_digits.list /\ ar.hot_digits.items # <<>>
    THEN RaisedKeyError("0")
    ELSE LET scored == [k \in 1..Len(order) |-> ScoreJodi(ar, order[k])]
         IN  [raised |-> FALSE, error |-> "",
              summary |-> <<Summarise(ar, SortByScore(scored))>>]

-----------------------------------------------------------------------------
(* One scoring run over analysis results drawn from the signal maps the    *)
(* analyzers can return                                                    *)

\* the dicts over the candidates with magnitudes in M
SignalMaps(M) == UNION {[S -> M] : S \in SUBSET Cands}

\* get_hot_digits returns a dict keyed by digit strings (hot_cold.py:58-61);
\* the list is what strongest_signals was written for
HotDigitsInputs ==
    { [list |-> FALSE, items |-> <<>>],
      [list |-> FALSE, items |-> <<"3">>],
      [list |-> TRUE,  items |-> <<"3", "7">>] }

\* analysis_results as main() builds it (main.py:258-265)
MainResults(hd, hot, due, exh, trend) ==
    [hot_digits |-> hd, hot_jodis |-> hot, due_cycles |-> due,
     exhausted_numbers |-> exh, trend_due_jodis |-> trend,
     trend_exhausted_jodis |-> exh]

\* analysis_results as Backtester.run builds it (backtester.py:30-41)
BacktestResults(hd, hot, due, exh, trend) ==
    [hot_digits |-> hd, hot_jodis |-> hot, due_jodis |-> due,
     exhausted_jodis |-> exh, trend_due_jodis |-> trend,
     trend_exhausted_jodis |-> exh, hot_open_sangams |-> <<>>,
     hot_close_sangams |-> <<>>, due_open_sangams |-> <<>>,
     due_close_sangams |-> <<>>]

\* config.CYCLE_GAP_MAX_DAYS, the default threshold_days of get_due_cycles
CYCLE_GAP_MAX_DAYS == 7

\* config.EXHAUSTED_GAP_THRESHOLD, the default consecutive_hits
EXHAUSTED_GAP_THRESHOLD == 3

InitScore ==
    /\ history = <<>>
    /\ reports = NoReports
    /\ log = [exists |-> FALSE, lines |-> <<>>]
    /\ ret = <<>>
    /\ msg = ""
    /\ proc = IdleProc
    /\ \E hd \in HotDigitsInputs,
          hot \in SignalMaps(1..MaxCount),
          due \in SignalMaps({CYCLE_GAP_MAX_DAYS}),
          exh \in SignalMaps(EXHAUSTED_GAP_THRESHOLD..(EXHAUSTED_GAP_THRESHOLD + 1)),
          trend \in SignalMaps({CYCLE_GAP_MAX_DAYS}) :
          sc \in { [status |-> "new", out |-> <<>>, order |-> <<>>,
                    input |-> MainResults(hd, hot, due, exh, trend)],
                   [status |-> "new", out |-> <<>>, order |-> <<>>,
                    input |-> BacktestResults(hd, hot, due, exh, trend)] }
    /\ mc = IdleMc
    /\ an = IdleAn
    /\ bt = IdleBt

GenerateDailySummary ==
    /\ sc.status = "new"
    /\ \E order \in (IF MissingUnionKey(sc.input) = ""
                     THEN Orders(AllJodis(sc.input)) ELSE {<<>>}) :
          sc' = [sc EXCEPT !.status = "done", !.order = order,
                           !.out = <<generate_daily_summary_and_confidence(
                                        sc.input, order)>>]
    /\ UNCHANGED <<history, reports, log, ret, msg, proc, mc, an, bt>>

NextScore == GenerateDailySummary

SpecScore == InitScore /\ [][NextScore]_vars

-----------------------------------------------------------------------------
(* The scoring over more candidates than the five it returns: every        *)
(* candidate is hot, any of them trend-aligned as well, and the first may  *)
(* be exhausted, so that scores tie and differ.                            *)

RankCands == {"11", "22", "33", "44", "55", "66"}

InitRank ==
    /\ history = <<>>
    /\ reports = NoReports
    /\ log = [exists |-> FALSE, lines |-> <<>>]
    /\ ret = <<>>
    /\ msg = ""
    /\ proc = IdleProc
    /\ \E trend \in SUBSET RankCands, exh \in SUBSET {"11"} :
          sc = [status |-> "new", out |-> <<>>, order |-> <<>>,
                input |-> MainResults([list |-> FALSE, items |-> <<>>],
                                      [c \in RankCands |-> 1],
                                      <<>>,
                                      [c \in exh |-> EXHAUSTED_GAP_THRESHOLD],
                                      [c \in trend |-> CYCLE_GAP_MAX_DAYS])]
    /\ mc = IdleMc
    /\ an = IdleAn
    /\ bt = IdleBt

SpecRank == InitRank /\ [][NextScore]_vars

-----------------------------------------------------------------------------
(* src/src/analysis/monte_carlo.py.  A DataFrame is the sequence of its    *)
(* jodi column, a missing jodi being NullJodi.  A float is kept exact, as  *)
(* the fraction [num, den].                                                *)

\* rows of the DataFrame handed to the analyzers
MaxRows == 3
\* num_simulations
MaxSims == 2

\* None / NaN in the jodi column
NullJodi == "<NA>"

Float(n, d) == [num |-> n, den |-> d]

\* the column as it is, the rows without a jodi kept
KeepNa(jodis) == jodis

\* DataFrame.dropna(subset=['jodi']), Series.dropna()
DropNa(jodis) == SelectSeq(jodis, LAMBDA j : j # NullJodi)

\* lines 54-63: simulated_hits / num_simulations raises ZeroDivisionError
\* when num_simulations is 0
SimulationResult(hits, num_simulations) ==
    IF num_simulations = 0
    THEN [raised |-> TRUE, error |-> "ZeroDivisionError", value |-> <<>>]
    ELSE [raised |-> FALSE, error |-> "",
          value |-> <<[simulated_hit_rate |-> Float(100 * hits, num_simulations),
                       confidence_score |->
                           IF 10 * hits > 10 * num_simulations
                           THEN Float(10, 1)
                           ELSE Float(10 * hits, num_simulations),
                       details |-> "Simulated days"]>>]

EarlyResult(details) ==
    [raised |-> FALSE, error |-> "",
     value |-> <<[simulated_hit_rate |-> Float(0, 1),
                  confidence_score |-> Float(0, 1), details |-> details]>>]

InitMC ==
    /\ history = <<>>
    /\ reports = NoReports
    /\ log = [exists |-> FALSE, lines |-> <<>>]
    /\ ret = <<>>
    /\ msg = ""
    /\ proc = IdleProc
    /\ sc = IdleSc
    /\ \E df \in UNION {[1..n -> Cands \cup {NullJodi}] : n \in 0..MaxRows},
          picks \in {<<>>, <<"12">>, <<"12", "34">>},
          num \in 0..MaxSims :
          mc = [status |-> "new", df |-> df, historical_df |-> <<>>,
                current_picks |-> picks, num_simulations |-> num,
                i |-> 0, simulated_hits |-> 0, out |-> <<>>]
    /\ an = IdleAn
    /\ bt = IdleBt

\* __init__ and _validate_dataframe: an empty DataFrame raises ValueError
MonteCarloInit ==
    /\ mc.status = "new"
    /\ mc' = IF mc.df = <<>>
             THEN [mc EXCEPT !.status = "raised",
                             !.out = <<[raised |-> TRUE, error |-> "ValueError",
                                        value |-> <<>>]>>]
             ELSE [mc EXCEPT !.status = "ready", !.historical_df = DropNa(mc.df)]
    /\ UNCHANGED <<history, reports, log, ret, msg, proc, sc, an, bt>>

\* run_simulation up to its loop: lines 39-46
RunSimulation ==
    /\ mc.status = "ready"
    /\ mc' = IF mc.current_picks = <<>>
             THEN [mc EXCEPT !.status = "returned",
                             !.out = <<EarlyResult("No picks to simulate.")>>]
             ELSE IF DropNa(mc.historical_df) = <<>>
             THEN [mc EXCEPT !.status = "returned",
                             !.out = <<EarlyResult("No historical jodi outcomes.")>>]
             ELSE [mc EXCEPT !.status = "loop"]
    /\ UNCHANGED <<history, reports, log, ret, msg, proc, sc, an, bt>>

\* one iteration of the loop: random.choice(jodi_outcomes), lines 48-52
SimulateDay ==
    /\ mc.status = "loop"
    /\ mc.i < mc.num_simulations
    /\ \E k \in 1..Len(DropNa(mc.historical_df)) :
          LET simulated_outcome == DropNa(mc.historical_df)[k]
              hit == \E q \in 1..Len(mc.current_picks) :
                         mc.current_picks[q] = simulated_outcome
          IN  mc' = [mc EXCEPT !.i = @ + 1,
                               !.simulated_hits = IF hit THEN @ + 1 ELSE @]
    /\ UNCHANGED <<history, reports, log, ret, msg, proc, sc, an, bt>>

\* after the loop: lines 54-63
FinishSimulation ==
    /\ mc.status = "loop"
    /\ mc.i = mc.num_simulations
    /\ LET res == SimulationResult(mc.simulated_hits, mc.num_simulations)
       IN  mc' = [mc EXCEPT !.status = IF res.raised THEN "raised" ELSE "returned",
                            !.out = <<res>>]
    /\ UNCHANGED <<history, reports, log, ret, msg, proc, sc, an, bt>>

NextMC == MonteCarloInit \/ RunSimulation \/ SimulateDay \/ FinishSimulation

SpecMC == InitMC /\ [][NextMC]_vars

-----------------------------------------------------------------------------
(* The scoring run again after one weight of config.SCORING_WEIGHTS has    *)
(* been raised, as a caller that patches the configuration does            *)
(* (tests/test_analysis.py, mock_config_weights).  The function of         *)
(* src/main.py does not read the configuration.                            *)

\* the signal map a weight of the configuration belongs to
MapOfWeight ==
    [HIGH_FREQUENCY_JODI |-> "hot_jodis", TREND_ALIGNED_JODI |-> "trend_due_jodis",
     EXTENDED_ABSENCE_JODI |-> "due_cycles",
     EXHAUSTED_PATTERN_PENALTY |-> "exhausted_numbers"]

InitWeights ==
    /\ history = <<>>
    /\ reports = NoReports
    /\ log = [exists |-> FALSE, lines |-> <<>>]
    /\ ret = <<>>
    /\ msg = ""
    /\ proc = IdleProc
    /\ \E hot \in SignalMaps({1, 2}),
          due \in SignalMaps({CYCLE_GAP_MAX_DAYS}),
          exh \in SignalMaps({EXHAUSTED_GAP_THRESHOLD}),
          trend \in SignalMaps({CYCLE_GAP_MAX_DAYS}) :
          sc = [status |-> "new", out |-> <<>>, order |-> <<>>,
                input |-> MainResults([list |-> FALSE, items |-> <<>>],
                                      hot, due, exh, trend),
                weights |-> SCORING_WEIGHTS, raised_weight |-> "",
                before |-> <<>>]
    /\ mc = IdleMc
    /\ an = IdleAn
    /\ bt = IdleBt

\* one weight of the configuration is raised by 0.25 and the scoring is due
\* again; the result under the weights as they were is kept for comparison
RaiseWeight ==
    /\ sc.status = "done"
    /\ sc.before = <<>>
    /\ \E w \in DOMAIN sc.weights :
          sc' = [sc EXCEPT !.status = "new", !.before = sc.out, !.out = <<>>,
                           !.weights[w] = @ + 5, !.raised_weight = w]
    /\ UNCHANGED <<history, reports, log, ret, msg, proc, mc, an, bt>>

NextWeights ==
    \/ GenerateDailySummary
    \/ RaiseWeight

SpecWeights == InitWeights /\ [][NextWeights]_vars

-----------------------------------------------------------------------------
(* The analyzers: src/src/analysis/hot_cold.py, trend_window.py and        *)
(* sangam_analysis.py.  A DataFrame is the sequence of its rows, a row a   *)
(* record of its columns.  Series.value_counts and sort_values leave the   *)
(* order of equal counts to the sort, so head(top_n) may keep any of the   *)
(* candidates tied at the cut: the hot selections are sets of outcomes.    *)

Digits == 0..9

DigitStr(d) == << "0", "1", "2", "3", "4", "5", "6", "7", "8", "9" >>[d + 1]

Dates(rows) == {rows[k].date : k \in 1..Len(rows)}

\* df['date'].max()
LatestDate(rows) == CHOOSE d \in Dates(rows) : \A e \in Dates(rows) : e <= d

\* df[df['date'] >= latest_date - timedelta(days=lookback_days)]
Since(rows, start_date) == SelectSeq(rows, LAMBDA r : r.date >= start_date)

\* df.dropna(subset=['open', 'close', 'jodi']); a row of a day without a
\* draw misses the three together
dropna(df) == SelectSeq(df, LAMBDA r : r.jodi # NullJodi)

\* df.empty, the test both constructors start with
RaisesOnEmpty(df) == df = <<>>

\* HotColdAnalyzer.__init__: ValueError over no rows, else self.df
HotColdAnalyzer(df) ==
    IF RaisesOnEmpty(df) THEN [raised |-> TRUE, error |-> "ValueError", df |-> <<>>]
    ELSE [raised |-> FALSE, error |-> "", df |-> dropna(df)]

\* TrendWindowAnalyzer.__init__: the same, self.df sorted by date
TrendWindowAnalyzer(df) ==
    IF RaisesOnEmpty(df) THEN [raised |-> TRUE, error |-> "ValueError", df |-> <<>>]
    ELSE [raised |-> FALSE, error |-> "", df |-> dropna(SortByDate(df))]

\* SangamAnalyzer.__init__: ValueError when a sangam column is missing; the
\* number of rows is not looked at
SangamAnalyzer(df, sangam_columns) ==
    IF ~sangam_columns THEN [raised |-> TRUE, error |-> "ValueError", df |-> <<>>]
    ELSE [raised |-> FALSE, error |-> "", df |-> df]

\* the frame itself, the lookback not applied
whole_data(df, lookback_days) == df

\* HotColdAnalyzer._get_recent_data
get_recent_data(df, lookback_days) ==
    IF df = <<>> THEN <<>> ELSE Since(df, LatestDate(df) - lookback_days)

\* Series.value_counts(): each value of the column to its number of rows
JodiCounts(rows) ==
    [j \in {rows[k].jodi : k \in 1..Len(rows)} |->
        Cardinality({k \in 1..Len(rows) : rows[k].jodi = j})]

\* HotColdAnalyzer.get_digit_frequency: open and close counts added, every
\* digit 0-9 present
DigitFrequency(rows) ==
    [d \in Digits |->
        Cardinality({k \in 1..Len(rows) : rows[k].open = d})
        + Cardinality({k \in 1..Len(rows) : rows[k].close = d})]

\* HotColdAnalyzer.get_jodi_frequency: the Series as a dict, its order aside
get_jodi_frequency(df, lookback_days) ==
    JodiCounts(get_recent_data(df, lookback_days))

\* HotColdAnalyzer.get_digit_frequency: an empty Series over an empty
\* window, else a count for each digit 0-9
get_digit_frequency(df, lookback_days) ==
    LET recent_df == get_recent_data(df, lookback_days)
    IN  IF recent_df = <<>> THEN <<>> ELSE DigitFrequency(recent_df)

\* the key sets head(n) may keep of a Series sorted by count, descending
TopKeys(counts, n) ==
    LET size == IF Cardinality(DOMAIN counts) < n
                THEN Cardinality(DOMAIN counts) ELSE n
    IN  {T \in SUBSET DOMAIN counts :
            /\ Cardinality(T) = size
            /\ \A a \in T, b \in (DOMAIN counts) \ T : counts[a] >= counts[b]}

Restrict(f, T) == [x \in T |-> f[x]]

\* HotColdAnalyzer.get_hot_jodis: the dicts it may return
get_hot_jodis(df, lookback_days, top_n) ==
    LET counts == JodiCounts(get_recent_data(df, lookback_days))
    IN  {Restrict(counts, T) : T \in TopKeys(counts, top_n)}

\* rename(index=str).to_dict() of a Series indexed by digits
DigitKeys(counts) ==
    [s \in {DigitStr(d) : d \in DOMAIN counts} |->
        counts[CHOOSE d \in DOMAIN counts : DigitStr(d) = s]]

\* HotColdAnalyzer.get_hot_digits: the dicts it may return, empty only when
\* the window is
get_hot_digits(df, lookback_days, top_n) ==
    LET recent == get_recent_data(df, lookback_days)
        freq == DigitFrequency(recent)
    IN  IF recent = <<>> THEN {<<>>}
        ELSE {DigitKeys(Restrict(freq, T)) : T \in TopKeys(freq, top_n)}

\* the due jodis of a window, the gap required to exceed threshold_days
DueJodisAbove(recent_df, threshold_days) ==
    LET latest_date == LatestDate(recent_df)
        last(j) == LatestDate(SelectSeq(recent_df, LAMBDA r : r.jodi = j))
        seen == {recent_df[k].jodi : k \in 1..Len(recent_df)}
    IN  [j \in {x \in seen : latest_date - last(x) > threshold_days} |->
            latest_date - last(j)]

\* the due jodis of a window: days since the last appearance, when at least
\* threshold_days
DueJodis(recent_df, threshold_days) ==
    LET latest_date == LatestDate(recent_df)
        last(j) == LatestDate(SelectSeq(recent_df, LAMBDA r : r.jodi = j))
        seen == {recent_df[k].jodi : k \in 1..Len(recent_df)}
    IN  [j \in {x \in seen : latest_date - last(x) >= threshold_days} |->
            latest_date - last(j)]

\* the due digits of a window, open and close taken together
DueDigits(recent_df, threshold_days) ==
    LET latest_date == LatestDate(recent_df)
        with(d) == SelectSeq(recent_df, LAMBDA r : r.open = d \/ r.close = d)
        seen == {d \in Digits : with(d) # <<>>}
        due  == {d \in seen : latest_date - LatestDate(with(d)) >= threshold_days}
    IN  [s \in {DigitStr(d) : d \in due} |->
            latest_date - LatestDate(with(CHOOSE d \in due : DigitStr(d) = s))]

NoDue == [due_jodis |-> <<>>, due_digits |-> <<>>]

\* HotColdAnalyzer.get_due_cycles
get_due_cycles(df, lookback_days, threshold_days) ==
    LET recent_df == get_recent_data(df, lookback_days)
    IN  IF recent_df = <<>> THEN NoDue
        ELSE [due_jodis |-> DueJodis(recent_df, threshold_days),
              due_digits |-> DueDigits(recent_df, threshold_days)]

\* the same over the whole history, the lookback not applied
get_due_cycles_of_all_rows(df, lookback_days, threshold_days) ==
    IF df = <<>> THEN NoDue
    ELSE [due_jodis |-> DueJodis(df, threshold_days),
          due_digits |-> DueDigits(df, threshold_days)]

\* TrendWindowAnalyzer.get_due_cycles_by_last_appearance
get_due_cycles_by_last_appearance(df, lookback_days, threshold_days) ==
    IF df = <<>> THEN NoDue
    ELSE LET recent_df == Since(df, LatestDate(df) - lookback_days)
         IN  IF recent_df = <<>> THEN NoDue
             ELSE [due_jodis |-> DueJodis(recent_df, threshold_days),
                   due_digits |-> DueDigits(recent_df, threshold_days)]

\* the counts above n
MoreThan(counts, n) == Restrict(counts, {x \in DOMAIN counts : counts[x] > n})

\* the counts that are n or more
AtLeast(counts, n) == Restrict(counts, {x \in DOMAIN counts : counts[x] >= n})

NoExhausted == [exhausted_jodis |-> <<>>, exhausted_digits |-> <<>>]

\* HotColdAnalyzer.get_exhausted_numbers
get_exhausted_numbers(df, lookback_days, consecutive_hits) ==
    LET recent_df == get_recent_data(df, lookback_days)
    IN  IF recent_df = <<>> THEN NoExhausted
        ELSE [exhausted_jodis |-> AtLeast(JodiCounts(recent_df), consecutive_hits),
              exhausted_digits |->
                  DigitKeys(AtLeast(DigitFrequency(recent_df), consecutive_hits))]

\* TrendWindowAnalyzer.get_exhausted_numbers_by_streak: digits that do not
\* occur in the window have no count
get_exhausted_numbers_by_streak(df, lookback_days, consecutive_hits) ==
    IF df = <<>> THEN NoExhausted
    ELSE LET recent_df == Since(df, LatestDate(df) - lookback_days)
             freq == DigitFrequency(recent_df)
             occurring == Restrict(freq, {d \in Digits : freq[d] > 0})
         IN  IF recent_df = <<>> THEN NoExhausted
             ELSE [exhausted_jodis |->
                       AtLeast(JodiCounts(recent_df), consecutive_hits),
                   exhausted_digits |->
                       DigitKeys(AtLeast(occurring, consecutive_hits))]

\* value_counts of a sangam column
SangamCounts(rows, col) ==
    [c \in {rows[k][col] : k \in 1..Len(rows)} |->
        Cardinality({k \in 1..Len(rows) : rows[k][col] = c})]

\* SangamAnalyzer.get_hot_sangams: the dicts it may return for one column;
\* over no rows latest_date is NaT and the window is empty
get_hot_sangams(df, col, lookback_days, top_n) ==
    LET recent_df == get_recent_data(df, lookback_days)
        counts == SangamCounts(recent_df, col)
    IN  {Restrict(counts, T) : T \in TopKeys(counts, top_n)}

\* every code of the whole history with the days since it last occurred,
\* whether it occurs in the window or not
days_since_last_appearance(df, col, lookback_days) ==
    LET latest_date == LatestDate(df)
        last(c) == LatestDate(SelectSeq(df, LAMBDA r : r[col] = c))
    IN  [c \in {df[k][col] : k \in 1..Len(df)} |-> latest_date - last(c)]

\* SangamAnalyzer.get_due_sangams for one column: the codes of the whole
\* history that do not occur in the window, with the days since they last did
get_due_sangams(df, col, lookback_days) ==
    LET recent_df == get_recent_data(df, lookback_days)
        latest_date == LatestDate(df)
        last(c) == LatestDate(SelectSeq(df, LAMBDA r : r[col] = c))
        all == {df[k][col] : k \in 1..Len(df)}
        recent == {recent_df[k][col] : k \in 1..Len(recent_df)}
    IN  [c \in all \ recent |-> latest_date - last(c)]

-----------------------------------------------------------------------------
(* The analyzers over histories of a few draws: each is constructed over   *)
(* the frame and its methods are called with a lookback, a threshold and   *)
(* a top_n that the few days of the histories can reach or miss.           *)

\* the results a day can have: the jodi, its two digits and the two panels
Draws ==
    { [jodi |-> "12", open |-> 1, close |-> 2,
       open_sangam |-> "128", close_sangam |-> "237"],
      [jodi |-> "34", open |-> 3, close |-> 4,
       open_sangam |-> "346", close_sangam |-> "478"] }

DrawRow(d, w) ==
    [date |-> d, open |-> w.open, close |-> w.close, jodi |-> w.jodi,
     open_sangam |-> w.open_sangam, close_sangam |-> w.close_sangam]

DrawRows == {DrawRow(d, w) : d \in Days, w \in Draws}

\* the frames of at most MaxRows rows, one row a date, in any order
Frames ==
    UNION { {f \in [1..n -> DrawRows] :
                \A a, b \in 1..n : f[a].date = f[b].date => a = b}
            : n \in 0..MaxRows }

\* the same as the loaders hand them over, sorted by date
SortedFrames == {f \in Frames : \A k \in 1..(Len(f) - 1) : f[k].date < f[k + 1].date}

LookbackDays == {1, 30}

ThresholdDays == {1, 7}

TopNs == {1, 5}

ConsecutiveHits == {1, 2, 3}

Methods ==
    [HotColdAnalyzer |-> {"get_digit_frequency", "get_jodi_frequency",
                          "get_hot_digits", "get_hot_jodis", "get_due_cycles",
                          "get_exhausted_numbers"},
     TrendWindowAnalyzer |-> {"get_due_cycles_by_last_appearance",
                              "get_exhausted_numbers_by_streak"},
     SangamAnalyzer |-> {"get_hot_sangams", "get_due_sangams"}]

\* the dicts a call may return, under the keys the method returns them
Outcomes(method, df, lookback_days, n) ==
    CASE method = "get_digit_frequency" ->
            {[digit_frequency |-> get_digit_frequency(df, lookback_days)]}
      [] method = "get_jodi_frequency" ->
            {[jodi_frequency |-> get_jodi_frequency(df, lookback_days)]}
      [] method = "get_hot_digits" ->
            {[hot_digits |-> r] : r \in get_hot_digits(df, lookback_days, n)}
      [] method = "get_hot_jodis" ->
            {[hot_jodis |-> r] : r \in get_hot_jodis(df, lookback_days, n)}
      [] method = "get_due_cycles" ->
            {get_due_cycles(df, lookback_days, n)}
      [] method = "get_exhausted_numbers" ->
            {get_exhausted_numbers(df, lookback_days, n)}
      [] method = "get_due_cycles_by_last_appearance" ->
            {get_due_cycles_by_last_appearance(df, lookback_days, n)}
      [] method = "get_exhausted_numbers_by_streak" ->
            {get_exhausted_numbers_by_streak(df, lookback_days, n)}
      [] method = "get_hot_sangams" ->
            {[hot_open_sangams |-> o, hot_close_sangams |-> c] :
                o \in get_hot_sangams(df, "open_sangam", lookback_days, n),
                c \in get_hot_sangams(df, "close_sangam", lookback_days, n)}
      [] method = "get_due_sangams" ->
            {[due_open_sangams |-> get_due_sangams(df, "open_sangam", lookback_days),
              due_close_sangams |-> get_due_sangams(df, "close_sangam", lookback_days)]}

\* the second argument a method takes, if any
SecondArgs(method) ==
    CASE method \in {"get_hot_digits", "get_hot_jodis", "get_hot_sangams"} -> TopNs
      [] method \in {"get_due_cycles", "get_due_cycles_by_last_appearance"} ->
            ThresholdDays
      [] method \in {"get_exhausted_numbers", "get_exhausted_numbers_by_streak"} ->
            ConsecutiveHits
      [] method \in {"get_due_sangams", "get_digit_frequency", "get_jodi_frequency"} ->
            {0}

InitAn ==
    /\ history = <<>>
    /\ reports = NoReports
    /\ log = [exists |-> FALSE, lines |-> <<>>]
    /\ ret = <<>>
    /\ msg = ""
    /\ proc = IdleProc
    /\ sc = IdleSc
    /\ mc = IdleMc
    /\ \E df \in SortedFrames, cols \in BOOLEAN :
          an = [df |-> df, sangam_columns |-> cols, HotColdAnalyzer |-> <<>>,
                TrendWindowAnalyzer |-> <<>>, SangamAnalyzer |-> <<>>,
                call |-> <<>>]
    /\ bt = IdleBt

NewHotColdAnalyzer ==
    /\ an.HotColdAnalyzer = <<>>
    /\ an' = [an EXCEPT !.HotColdAnalyzer = <<HotColdAnalyzer(an.df)>>]
    /\ UNCHANGED <<history, reports, log, ret, msg, proc, sc, mc, bt>>

NewTrendWindowAnalyzer ==
    /\ an.TrendWindowAnalyzer = <<>>
    /\ an' = [an EXCEPT !.TrendWindowAnalyzer = <<TrendWindowAnalyzer(an.df)>>]
    /\ UNCHANGED <<history, reports, log, ret, msg, proc, sc, mc, bt>>

NewSangamAnalyzer ==
    /\ an.SangamAnalyzer = <<>>
    /\ an' = [an EXCEPT !.SangamAnalyzer =
                            <<SangamAnalyzer(an.df, an.sangam_columns)>>]
    /\ UNCHANGED <<history, reports, log, ret, msg, proc, sc, mc, bt>>

\* the state after one call of a method of a constructed analyzer; a
\* behaviour follows one call
Called(family, method, lookback_days, n, result) ==
    [an EXCEPT !.call = <<[analyzer |-> family, method |-> method,
                           lookback_days |-> lookback_days, n |-> n,
                           result |-> result]>>]

CallHotCold ==
    /\ an.call = <<>>
    /\ an.HotColdAnalyzer # <<>>
    /\ ~an.HotColdAnalyzer[1].raised
    /\ \E method \in Methods.HotColdAnalyzer, lookback_days \in LookbackDays :
         \E n \in SecondArgs(method) :
           \E result \in Outcomes(method, an.HotColdAnalyzer[1].df, lookback_days, n) :
              an' = Called("HotColdAnalyzer", method, lookback_days, n, result)
    /\ UNCHANGED <<history, reports, log, ret, msg, proc, sc, mc, bt>>

CallTrendWindow ==
    /\ an.call = <<>>
    /\ an.TrendWindowAnalyzer # <<>>
    /\ ~an.TrendWindowAnalyzer[1].raised
    /\ \E method \in Methods.TrendWindowAnalyzer, lookback_days \in LookbackDays :
         \E n \in SecondArgs(method) :
           \E result \in Outcomes(method, an.TrendWindowAnalyzer[1].df, lookback_days, n) :
              an' = Called("TrendWindowAnalyzer", method, lookback_days, n, result)
    /\ UNCHANGED <<history, reports, log, ret, msg, proc, sc, mc, bt>>

CallSangam ==
    /\ an.call = <<>>
    /\ an.SangamAnalyzer # <<>>
    /\ ~an.SangamAnalyzer[1].raised
    /\ \E method \in Methods.SangamAnalyzer, lookback_days \in LookbackDays :
         \E n \in SecondArgs(method) :
           \E result \in Outcomes(method, an.SangamAnalyzer[1].df, lookback_days, n) :
              an' = Called("SangamAnalyzer", method, lookback_days, n, result)
    /\ UNCHANGED <<history, reports, log, ret, msg, proc, sc, mc, bt>>

NextAn ==
    \/ NewHotColdAnalyzer
    \/ NewTrendWindowAnalyzer
    \/ NewSangamAnalyzer
    \/ CallHotCold
    \/ CallTrendWindow
    \/ CallSangam

SpecAn == InitAn /\ [][NextAn]_vars

-----------------------------------------------------------------------------
(* src/src/analysis/backtester.py.  Backtester(df, warmup) keeps the frame *)
(* sorted by date; run() walks i over range(warmup, len(df)), and a step   *)
(* is the slice of lines 21-22 followed by lines 25-88 on that slice.  An  *)
(* exception leaves run() at the step that raised it.                      *)

\* df.iloc[:i + 1]: the prefix that takes the row at index i in
iloc_through(df, i) == SubSeq(df, 1, i + 1)

\* df.iloc[:i], the first i rows
iloc_prefix(df, i) == SubSeq(df, 1, i)

\* df.iloc[i], indices counted from 0
iloc(df, i) == df[i + 1]

DigitOf(s) == CHOOSE d \in Digits : DigitStr(d) = s

\* the keys of a dict of digits as the scoring takes them; it reads of a
\* dict only whether it is empty, so they are listed by digit
KeyList(dict) ==
    LET ds == {DigitOf(s) : s \in DOMAIN dict}
    IN  [k \in 1..Cardinality(ds) |->
            DigitStr(CHOOSE d \in ds : Cardinality({e \in ds : e < d}) = k - 1)]

\* lines 30-41: analysis_results from the three analyzers, the hot
\* selections being the ones the calls returned
analysis_results(hot_cold, trend, sangam, hot_digits, hot_jodis, hot_open, hot_close) ==
    [hot_digits |-> [list |-> FALSE, items |-> KeyList(hot_digits)],
     hot_jodis |-> hot_jodis,
     due_jodis |-> get_due_cycles(hot_cold.df, 90, 7).due_jodis,
     exhausted_jodis |-> get_exhausted_numbers(hot_cold.df, 30, 3).exhausted_jodis,
     trend_due_jodis |->
         get_due_cycles_by_last_appearance(trend.df, 90, 7).due_jodis,
     trend_exhausted_jodis |->
         get_exhausted_numbers_by_streak(trend.df, 30, 3).exhausted_jodis,
     hot_open_sangams |-> hot_open,
     hot_close_sangams |-> hot_close,
     due_open_sangams |-> get_due_sangams(sangam.df, "open_sangam", 60),
     due_close_sangams |-> get_due_sangams(sangam.df, "close_sangam", 60)]

\* lines 47-52: the assertions on the picks; the name of the first that fails
FailedAssertion(picks) ==
    IF picks = <<>> THEN ""
    ELSE IF ~Has(picks[1], "value") THEN "Pick dictionary missing 'value' key"
    ELSE IF ~Has(picks[1], "confidence")
    THEN "Pick dictionary missing 'confidence' key"
    ELSE ""

\* the n-th pick alone is the actual jodi
HitAt(picks, n, actual) ==
    Len(picks) >= n /\ picks[n].value = actual

\* any(str(p["value"]) == actual for p in picks[:n])
HitIn(picks, n, actual) ==
    \E k \in 1..Len(Prefix(picks, n)) : picks[k].value = actual

\* the confidence of the last of the first n picks that is the actual jodi
LastConfidenceIn(picks, n, actual) ==
    LET hits == {k \in 1..Len(Prefix(picks, n)) : picks[k].value = actual}
    IN  picks[CHOOSE k \in hits : \A j \in hits : k >= j].confidence

\* next(p["confidence"] for p in picks[:n] if str(p["value"]) == actual)
ConfidenceIn(picks, n, actual) ==
    LET hits == {k \in 1..Len(Prefix(picks, n)) : picks[k].value = actual}
    IN  picks[CHOOSE k \in hits : \A j \in hits : k <= j].confidence

\* lines 54-88: the result row of one step
ResultRow(test_row, picks) ==
    LET actual == test_row.jodi
        top1 == picks # <<>> /\ picks[1].value = actual
        top3 == picks # <<>> /\ HitIn(picks, 3, actual)
        top5 == picks # <<>> /\ HitIn(picks, 5, actual)
    IN  [date |-> test_row.date, actual |-> actual,
         top1_hit |-> top1, top3_hit |-> top3, top5_hit |-> top5,
         confidence |-> IF top1 THEN picks[1].confidence
                        ELSE IF top3 THEN ConfidenceIn(picks, 3, actual)
                        ELSE IF top5 THEN ConfidenceIn(picks, 5, actual)
                        ELSE "Miss"]

\* run() left by an exception
Raise(b, error) == [b EXCEPT !.pc = "raised", !.error = error]

\* lines 44-88 on the analysis results of a step: the scoring call, the
\* assertions, the row appended and the loop variable advanced
Scored(b, out) ==
    IF out.raised THEN Raise(b, "KeyError")
    ELSE LET picks == out.summary[1].top_picks_with_confidence
         IN  IF FailedAssertion(picks) # "" THEN Raise(b, "AssertionError")
             ELSE [b EXCEPT !.results = Append(@, ResultRow(b.test_row[1], picks)),
                            !.i = @ + 1, !.pc = "loop"]

InitBt ==
    /\ history = <<>>
    /\ reports = NoReports
    /\ log = [exists |-> FALSE, lines |-> <<>>]
    /\ ret = <<>>
    /\ msg = ""
    /\ proc = IdleProc
    /\ sc = IdleSc
    /\ mc = IdleMc
    /\ an = IdleAn
    /\ \E df \in Frames, warmup \in 0..MaxRows, cols \in BOOLEAN :
          bt = [pc |-> "new", input |-> df, sangam_columns |-> cols,
                df |-> <<>>, warmup |-> warmup, i |-> 0, train_df |-> <<>>,
                test_row |-> <<>>, results |-> <<>>, error |-> ""]

\* lines 13-15: Backtester(df, warmup)
BacktesterInit ==
    /\ bt.pc = "new"
    /\ bt' = [bt EXCEPT !.pc = "constructed", !.df = SortByDate(bt.input)]
    /\ UNCHANGED <<history, reports, log, ret, msg, proc, sc, mc, an>>

\* lines 18-20: run() starts the loop at warmup
Run ==
    /\ bt.pc = "constructed"
    /\ bt' = [bt EXCEPT !.pc = "loop", !.i = bt.warmup, !.results = <<>>]
    /\ UNCHANGED <<history, reports, log, ret, msg, proc, sc, mc, an>>

\* lines 20-22: the next i of range(warmup, len(df)), its training frame
\* and its test row
Slice ==
    /\ bt.pc = "loop"
    /\ bt.i < Len(bt.df)
    /\ bt' = [bt EXCEPT !.pc = "sliced",
                        !.train_df = iloc_prefix(bt.df, bt.i),
                        !.test_row = <<iloc(bt.df, bt.i)>>]
    /\ UNCHANGED <<history, reports, log, ret, msg, proc, sc, mc, an>>

\* lines 25-88: the analyzers over the training frame, the analysis, the
\* scoring and the row
Analyse ==
    /\ bt.pc = "sliced"
    /\ LET hot_cold == HotColdAnalyzer(bt.train_df)
           trend    == TrendWindowAnalyzer(bt.train_df)
           sangam   == SangamAnalyzer(bt.train_df, bt.sangam_columns)
       IN  IF hot_cold.raised THEN bt' = Raise(bt, hot_cold.error)
           ELSE IF trend.raised THEN bt' = Raise(bt, trend.error)
           ELSE IF sangam.raised THEN bt' = Raise(bt, sangam.error)
           ELSE \E hot_digits \in get_hot_digits(hot_cold.df, 30, 5),
                   hot_jodis \in get_hot_jodis(hot_cold.df, 30, 5),
                   hot_open \in get_hot_sangams(sangam.df, "open_sangam", 30, 5),
                   hot_close \in get_hot_sangams(sangam.df, "close_sangam", 30, 5) :
                   LET ar == analysis_results(hot_cold, trend, sangam, hot_digits,
                                              hot_jodis, hot_open, hot_close)
                   IN  \E order \in (IF MissingUnionKey(ar) = ""
                                     THEN Orders(AllJodis(ar)) ELSE {<<>>}) :
                          bt' = Scored(bt, generate_daily_summary_and_confidence(
                                               ar, order))
    /\ UNCHANGED <<history, reports, log, ret, msg, proc, sc, mc, an>>

\* line 90: the loop is over, the rows are returned
Return ==
    /\ bt.pc = "loop"
    /\ bt.i >= Len(bt.df)
    /\ bt' = [bt EXCEPT !.pc = "returned"]
    /\ UNCHANGED <<history, reports, log, ret, msg, proc, sc, mc, an>>

NextBt ==
    \/ BacktesterInit
    \/ Run
    \/ Slice
    \/ Analyse
    \/ Return

SpecBt == InitBt /\ [][NextBt]_vars

-----------------------------------------------------------------------------
(* Lines 45-88 of Backtester.run as a function of the picks the scoring    *)
(* hands over and of the test row: the picks are lists of dicts with the   *)
(* keys the assertions of lines 47-52 ask for.                             *)

\* the longest list of picks
MaxPicks == 6

PickLists ==
    UNION { [1..n -> {Pick(v, c) : v \in Cands, c \in {"High", "Low"}}]
            : n \in 0..MaxPicks }

InitRow ==
    /\ history = <<>>
    /\ reports = NoReports
    /\ log = [exists |-> FALSE, lines |-> <<>>]
    /\ ret = <<>>
    /\ msg = ""
    /\ proc = IdleProc
    /\ sc = IdleSc
    /\ mc = IdleMc
    /\ an = IdleAn
    /\ \E picks \in PickLists, w \in Draws :
          bt = [pc |-> "scored", picks |-> picks, test_row |-> <<DrawRow(1, w)>>,
                results |-> <<>>, error |-> ""]

\* lines 47-88: the assertions, then the row appended to results
RecordRow ==
    /\ bt.pc = "scored"
    /\ bt' = IF FailedAssertion(bt.picks) # "" THEN Raise(bt, "AssertionError")
             ELSE [bt EXCEPT !.pc = "recorded",
                             !.results = Append(@, ResultRow(bt.test_row[1], bt.picks))]
    /\ UNCHANGED <<history, reports, log, ret, msg, proc, sc, mc, an>>

NextRow == RecordRow

SpecRow == InitRow /\ [][NextRow]_vars

-----------------------------------------------------------------------------
(* The caller's DataFrame and the frames the analyzers and the helpers of  *)
(* cycle_analyzer.py work on.  A DataFrame is an object: the heap holds    *)
(* the frames by identity, df.copy() and a filter make a new one, and an   *)
(* assignment to a column writes the object it is made on.                 *)

\* the dtype of a date column read from the CSV without parsing, and parsed
DateDtypes == {"object", "datetime64[ns]"}

\* a frame of the caller: the rows in any order, the dates as the dtype holds them
CallerFrame(rows, dtype) ==
    [date_dtype |-> dtype,
     rows |-> [k \in 1..Len(rows) |->
                  [rows[k] EXCEPT !.date = IF dtype = "object" THEN DateStr(@) ELSE @]]]

\* pd.to_datetime(df['date']) as the value of the column
to_datetime(frame) ==
    [date_dtype |-> "datetime64[ns]",
     rows |-> [k \in 1..Len(frame.rows) |->
                  [frame.rows[k] EXCEPT
                      !.date = IF frame.date_dtype = "object" THEN ParseDate(@) ELSE @]]]

\* a frame of the same dtype over other rows: the result of a filter or a sort
WithRows(frame, rows) == [frame EXCEPT !.rows = rows]

\* the jodis of the draws as sorted() orders them
JodiOrder == <<"12", "34">>

sorted(S) == SelectSeq(JodiOrder, LAMBDA j : j \in S)

\* calculate_cycle_gaps(df, 'jodi') lines 21-30: the days since each jodi
\* that has appeared last did, over rows with parsed dates
CycleGaps(rows) ==
    [j \in {rows[k].jodi : k \in 1..Len(rows)} |->
        LatestDate(rows) - LatestDate(SelectSeq(rows, LAMBDA r : r.jodi = j))]

\* identify_hot_numbers(df, 'jodi', lookback_days, top_n) lines 73-85: the
\* lists it may return, over rows with parsed dates
HotNumbers(rows, lookback_days, top_n) ==
    LET counts == JodiCounts(get_recent_data(rows, lookback_days))
    IN  {sorted(T) : T \in TopKeys(counts, top_n)}

InitCaller ==
    /\ history = <<>>
    /\ reports = NoReports
    /\ log = [exists |-> FALSE, lines |-> <<>>]
    /\ ret = <<>>
    /\ msg = ""
    /\ proc = IdleProc
    /\ sc = IdleSc
    /\ mc = IdleMc
    /\ \E rows \in Frames, dtype \in DateDtypes :
          an = [heap |-> <<CallerFrame(rows, dtype)>>, df |-> 1,
                original |-> CallerFrame(rows, dtype),
                self_df |-> 0, raised |-> "", called |-> "", result |-> <<>>]
    /\ bt = IdleBt

\* HotColdAnalyzer(df): the copy, the dates of the copy parsed, the rows
\* without a draw dropped into a new frame
CallerNewHotCold ==
    /\ an.called = ""
    /\ IF an.heap[an.df].rows = <<>>
       THEN an' = [an EXCEPT !.called = "HotColdAnalyzer", !.raised = "ValueError"]
       ELSE LET copy == to_datetime(an.heap[an.df])
            IN  an' = [an EXCEPT !.called = "HotColdAnalyzer",
                                 !.heap = @ \o <<copy, WithRows(copy, dropna(copy.rows))>>,
                                 !.self_df = Len(an.heap) + 2]
    /\ UNCHANGED <<history, reports, log, ret, msg, proc, sc, mc, bt>>

\* TrendWindowAnalyzer(df): the same, the copy sorted by date into a new
\* frame before the rows are dropped
CallerNewTrendWindow ==
    /\ an.called = ""
    /\ IF an.heap[an.df].rows = <<>>
       THEN an' = [an EXCEPT !.called = "TrendWindowAnalyzer", !.raised = "ValueError"]
       ELSE LET copy == to_datetime(an.heap[an.df])
                by_date == WithRows(copy, SortByDate(copy.rows))
            IN  an' = [an EXCEPT !.called = "TrendWindowAnalyzer",
                                 !.heap = @ \o <<copy, by_date,
                                                 WithRows(by_date, dropna(by_date.rows))>>,
                                 !.self_df = Len(an.heap) + 3]
    /\ UNCHANGED <<history, reports, log, ret, msg, proc, sc, mc, bt>>

\* SangamAnalyzer(df): the copy, its sangam columns written as strings,
\* which they are; the dates are left as they came
CallerNewSangam ==
    /\ an.called = ""
    /\ an' = [an EXCEPT !.called = "SangamAnalyzer",
                        !.heap = Append(@, an.heap[an.df]),
                        !.self_df = Len(an.heap) + 1]
    /\ UNCHANGED <<history, reports, log, ret, msg, proc, sc, mc, bt>>

\* _get_recent_data of a constructed HotColdAnalyzer or TrendWindowAnalyzer:
\* the rows of the window as a new frame
CallerGetRecentData ==
    /\ an.called \in {"HotColdAnalyzer", "TrendWindowAnalyzer"}
    /\ an.self_df # 0
    /\ \E lookback_days \in LookbackDays :
          an' = [an EXCEPT !.called = "_get_recent_data",
                           !.heap = Append(@, WithRows(an.heap[an.self_df],
                                        get_recent_data(an.heap[an.self_df].rows,
                                                        lookback_days)))]
    /\ UNCHANGED <<history, reports, log, ret, msg, proc, sc, mc, bt>>

\* calculate_cycle_gaps(df, 'jodi'): line 20 writes the date column of the
\* frame it was given
CalculateCycleGaps ==
    /\ an.called = ""
    /\ LET parsed == to_datetime(an.heap[an.df])
       IN  an' = [an EXCEPT !.called = "calculate_cycle_gaps",
                            !.heap[an.df] = parsed,
                            !.result = CycleGaps(parsed.rows)]
    /\ UNCHANGED <<history, reports, log, ret, msg, proc, sc, mc, bt>>

\* identify_hot_numbers(df, 'jodi', lookback_days, top_n): line 72 writes
\* the date column of the frame it was given, the window is a new frame
IdentifyHotNumbers ==
    /\ an.called = ""
    /\ LET parsed == to_datetime(an.heap[an.df])
       IN  \E lookback_days \in LookbackDays, top_n \in TopNs :
             \E hot_numbers \in HotNumbers(parsed.rows, lookback_days, top_n) :
                an' = [an EXCEPT !.called = "identify_hot_numbers",
                                 !.heap = Append([@ EXCEPT ![an.df] = parsed],
                                     WithRows(parsed, get_recent_data(parsed.rows,
                                                                     lookback_days))),
                                 !.result = hot_numbers]
    /\ UNCHANGED <<history, reports, log, ret, msg, proc, sc, mc, bt>>

NextCaller ==
    \/ CallerNewHotCold
    \/ CallerNewTrendWindow
    \/ CallerNewSangam
    \/ CallerGetRecentData
    \/ CalculateCycleGaps
    \/ IdentifyHotNumbers

SpecCaller == InitCaller /\ [][NextCaller]_vars

-----------------------------------------------------------------------------
(* The reasons of a pick: explain_pick over signals given as lists, and    *)
(* the reasons the scoring attaches to the jodis it scores.  A state holds *)
(* one call of the one or of the other.                                    *)

\* the keys of signals that explain_pick reads
SignalNames ==
    {"high_frequency", "trend_window", "extended_absence", "sangam_support",
     "exhausted"}

\* REASON_MAP of explain_pick, the warning sign before the exhaustion text left out
REASON_MAP ==
    [high_frequency |-> "High frequency in recent draws",
     trend_window |-> "Appears in active trend window",
     extended_absence |-> "Extended absence cycle (statistically due)",
     exhausted |-> "Over-represented recently (exhaustion risk)",
     sangam_support |-> "Supported by sangam pattern alignment"]

\* pick in signals.get(key, [])
InSignal(pick, signals, key) ==
    Has(signals, key) /\ \E k \in 1..Len(signals[key]) : signals[key][k] = pick

\* the reason of a key if the pick is in its list
ReasonIf(pick, signals, key) ==
    IF InSignal(pick, signals, key) THEN <<REASON_MAP[key]>> ELSE <<>>

\* the same tests, the exhaustion warning put before the sangam support
explain_pick_exhausted_first(pick, signals) ==
    ReasonIf(pick, signals, "high_frequency")
    \o ReasonIf(pick, signals, "trend_window")
    \o ReasonIf(pick, signals, "extended_absence")
    \o ReasonIf(pick, signals, "exhausted")
    \o ReasonIf(pick, signals, "sangam_support")

\* explain_pick(pick, signals)
explain_pick(pick, signals) ==
    ReasonIf(pick, signals, "high_frequency")
    \o ReasonIf(pick, signals, "trend_window")
    \o ReasonIf(pick, signals, "extended_absence")
    \o ReasonIf(pick, signals, "sangam_support")
    \o ReasonIf(pick, signals, "exhausted")

\* the lists a signal may hold, a pick standing in one more than once
SignalLists == {<<>>, <<"12">>, <<"34">>, <<"34", "12">>, <<"12", "12">>}

\* the signals dicts: any of the keys may be missing
SignalDicts == UNION {[S -> SignalLists] : S \in SUBSET SignalNames}

InitExplain ==
    /\ history = <<>>
    /\ reports = NoReports
    /\ log = [exists |-> FALSE, lines |-> <<>>]
    /\ ret = <<>>
    /\ msg = ""
    /\ proc = IdleProc
    /\ \/ \E hd \in HotDigitsInputs,
             hot \in SignalMaps(1..MaxCount),
             due \in SignalMaps({CYCLE_GAP_MAX_DAYS}),
             exh \in SignalMaps(EXHAUSTED_GAP_THRESHOLD..(EXHAUSTED_GAP_THRESHOLD + 1)),
             trend \in SignalMaps({CYCLE_GAP_MAX_DAYS}) :
             sc = [status |-> "new", out |-> <<>>, order |-> <<>>,
                   input |-> MainResults(hd, hot, due, exh, trend)]
       \/ \E pick \in Cands, signals \in SignalDicts :
             sc = [status |-> "asked", pick |-> pick, signals |-> signals,
                   reasons |-> <<>>]
    /\ mc = IdleMc
    /\ an = IdleAn
    /\ bt = IdleBt

ExplainPick ==
    /\ sc.status = "asked"
    /\ sc' = [sc EXCEPT !.status = "explained",
                        !.reasons = explain_pick(sc.pick, sc.signals)]
    /\ UNCHANGED <<history, reports, log, ret, msg, proc, mc, an, bt>>

NextExplain ==
    \/ GenerateDailySummary
    \/ ExplainPick

SpecExplain == InitExplain /\ [][NextExplain]_vars

-----------------------------------------------------------------------------
(* What the specification says of the validation logger, stated without    *)
(* the operators above                                                     *)

\* the days of the history on which a draw is held
GameDays(h) == {h[k].date : k \in 1..Len(h)} \ {d \in Days : Weekday(d) = 6}

MaxOf(S) == IF S = {} THEN 0 ELSE CHOOSE d \in S : \A e \in S : e <= d

\* the latest draw day of the history, 0 when it has none
ActualDay(h) == MaxOf(GameDays(h))

\* the latest draw day strictly before it, 0 when there is none
PredictionDay(h) == MaxOf({d \in GameDays(h) : d < ActualDay(h)})

\* the lines of the file whose first cell is the date of day d
LinesFor(file, d) == {k \in 1..Len(file.lines) : file.lines[k][1] = DateStr(d)}

\* C4: a call that follows a call that logged the actual date of the same
\* history returns None and leaves the log as it is, whatever the log held
\* before the first of the two
C4_SecondCallIsNoOp ==
    [][ ( /\ ValidateLatestGame
          /\ msg = "logged"
          /\ ret # <<>>
          /\ ActualDay(history) # 0
          /\ ret[1].date = DateStr(ActualDay(history)) )
        => (ret' = <<>> /\ log' = log) ]_vars

\* C9: with no snapshot for the prediction day the call returns None and the
\* log file keeps its contents and its existence
C9_NoSnapshotNoRow ==
    [][ ( /\ ValidateLatestGame
          /\ PredictionDay(history) # 0
          /\ reports[PredictionDay(history)] = <<>> )
        => (ret' = <<>> /\ log' = log) ]_vars

\* C9 witness: a call found no snapshot for the prediction day and skipped
C9_Witness ==
    /\ msg = "report not found"
    /\ ret = <<>>
    /\ PredictionDay(history) # 0
    /\ reports[PredictionDay(history)] = <<>>
    /\ log.exists
    /\ Len(log.lines) >= 2

\* C10: a logged row is for the latest draw day of the history, predicted on
\* the latest draw day strictly before it, so prediction_date < date; with
\* fewer than two draw days the call returns None and writes nothing
C10_ActualAndPredictionDay ==
    [][ ValidateLatestGame =>
          /\ ret' # <<>> =>
                /\ PredictionDay(history) # 0
                /\ ret'[1].date = DateStr(ActualDay(history))
                /\ ret'[1].prediction_date = DateStr(PredictionDay(history))
                /\ ParseDate(ret'[1].prediction_date) < ParseDate(ret'[1].date)
                /\ Weekday(ParseDate(ret'[1].date)) # 6
                /\ Weekday(ParseDate(ret'[1].prediction_date)) # 6
                /\ log'.lines[Len(log'.lines)] = RowCells(ret'[1])
          /\ Cardinality(GameDays(history)) < 2 =>
                (ret' = <<>> /\ log' = log)
          /\ log' # log => ret' # <<>> ]_vars

\* C10 witness: Monday's draw was logged against Saturday's snapshot, the
\* Sunday row between them passed over
C10_Witness ==
    /\ msg = "logged"
    /\ ret # <<>>
    /\ ret[1].date = DateStr(4)
    /\ ret[1].prediction_date = DateStr(2)
    /\ \E k \in 1..Len(history) : history[k].date = 3
    /\ ActualDay(history) = 4

\* the jodi of the row of day d
JodiOn(h, d) == h[CHOOSE k \in 1..Len(h) : h[k].date = d].jodi

\* a jodi written with two digits
TwoDigits(jodi) ==
    CASE jodi = "5" -> "05"
      [] jodi = "7" -> "07"
      [] jodi = "8" -> "08"
      [] jodi = "9" -> "09"
      [] OTHER -> jodi

\* the picks a snapshot is read for
PicksOf(report) ==
    IF report.top_picks # <<>> THEN report.top_picks ELSE report.ranked_picks

\* r is the place of the first of the first five picks that is the actual
\* jodi, 0 when none of them is
IsHitRank(r, picks, actual) ==
    \/ /\ r = 0
       /\ \A k \in 1..Len(picks) : k <= 5 => TwoDigits(picks[k].value) # actual
    \/ /\ r \in 1..5
       /\ r <= Len(picks)
       /\ TwoDigits(picks[r].value) = actual
       /\ \A k \in 1..(r - 1) : TwoDigits(picks[k].value) # actual

\* C11: in every row that is logged, hit_rank is the 1-based place of the
\* first occurrence of the zero-padded actual jodi among the first five picks
\* of the snapshot, 0 when it is not among them; top1_hit, top3_hit and
\* top5_hit say that the rank is 1, within 1..3 and within 1..5, so each
\* implies the next; confidence is "Miss" exactly when the rank is 0; and the
\* line appended to the log holds these values.
C11_HitRankAndTiers ==
    [][ (ValidateLatestGame /\ ret' # <<>>) =>
          LET row    == ret'[1]
              picks  == PicksOf(reports[PredictionDay(history)][1])
              actual == TwoDigits(JodiOn(history, ActualDay(history)))
              line   == log'.lines[Len(log'.lines)]
              str(b) == IF b THEN "True" ELSE "False"
          IN  /\ row.actual_jodi = actual
              /\ IsHitRank(row.hit_rank, picks, actual)
              /\ row.top1_hit = (row.hit_rank = 1)
              /\ row.top3_hit = (row.hit_rank \in 1..3)
              /\ row.top5_hit = (row.hit_rank \in 1..5)
              /\ row.top1_hit => row.top3_hit
              /\ row.top3_hit => row.top5_hit
              /\ (row.confidence = "Miss") = (row.hit_rank = 0)
              /\ line[3] = actual
              /\ line[5] = <<"0", "1", "2", "3", "4", "5">>[row.hit_rank + 1]
              /\ line[6] = str(row.top1_hit)
              /\ line[7] = str(row.top3_hit)
              /\ line[8] = str(row.top5_hit)
              /\ line[9] = row.confidence ]_vars

\* C11 witness: the actual jodi 5 was the fifth pick, behind a value that
\* stands twice: a top-5 hit that is no top-3 hit
C11_Witness ==
    /\ msg = "logged"
    /\ ret # <<>>
    /\ ret[1].actual_jodi = "05"
    /\ ret[1].hit_rank = 5
    /\ ~ret[1].top3_hit
    /\ ret[1].top5_hit
    /\ ret[1].confidence = "Low"
    /\ log.lines[Len(log.lines)][4] = "12,34,12,07,05"

\* a row for a jodi that is the sixth pick of the snapshot only: a miss
C11_SixthPickIsAMiss ==
    /\ msg = "logged"
    /\ ret # <<>>
    /\ ret[1].actual_jodi = "05"
    /\ ret[1].hit_rank = 0
    /\ ret[1].confidence = "Miss"

\* the log is a header and rows of distinct dates, or is not there
WellFormedLog(file) ==
    IF ~file.exists THEN file.lines = <<>>
    ELSE /\ Len(file.lines) >= 2
         /\ file.lines[1] = Header
         /\ \A k \in 2..Len(file.lines) : file.lines[k] # Header
         /\ \A a, b \in 2..Len(file.lines) :
               file.lines[a][1] = file.lines[b][1] => a = b

\* the lines of before are the first lines of after, and after has at most
\* one row more, under a header if before had none
AppendsAtMostOneRow(before, after) ==
    /\ Len(after.lines) >= Len(before.lines)
    /\ SubSeq(after.lines, 1, Len(before.lines)) = before.lines
    /\ Len(after.lines) <= Len(before.lines) + (IF before.lines = <<>> THEN 2 ELSE 1)
    /\ before.exists => after.exists

\* C29: started without a log file, after any calls of validate_latest_game
\* over growing histories and whatever snapshots there are, the log begins
\* with the header, written once, no two of its rows have the same date,
\* and no step changes or removes a line written before or adds more than
\* one row.
C29_LogIsAppendOnly ==
    /\ [] WellFormedLog(log)
    /\ [][AppendsAtMostOneRow(log, log')]_vars

\* C29 witness: two rows logged by two calls, for Saturday and for Monday
C29_Witness ==
    /\ Len(log.lines) = 3
    /\ log.lines[1] = Header
    /\ log.lines[2][1] = "2024-01-06"
    /\ log.lines[3][1] = "2024-01-08"

\* C5: when both executions have returned and the log starts with its
\* header, the log holds exactly one row for the actual date
C5_OneRowUnderEveryInterleaving ==
    ( /\ \A p \in Procs : proc[p].pc = "done"
      /\ \E p \in Procs : proc[p].ret # <<>>
      /\ log.lines[1] = Header )
    => Cardinality(LinesFor(log, ActualDay(history))) = 1

-----------------------------------------------------------------------------
(* What the specification says of the scoring function *)

\* weight * magnitude when jodi is a key of the signal map, else 0
Term(weight, signal, jodi) == IF Has(signal, jodi) THEN weight * signal[jodi] ELSE 0

\* the score section 4.2 prescribes, in twentieths
WeightedScore(ar, jodi) ==
    Term(SCORING_WEIGHTS.HIGH_FREQUENCY_JODI, ar.hot_jodis, jodi)
    + Term(SCORING_WEIGHTS.TREND_ALIGNED_JODI, ar.trend_due_jodis, jodi)
    + Term(SCORING_WEIGHTS.EXTENDED_ABSENCE_JODI, ar.due_cycles, jodi)
    + Term(SCORING_WEIGHTS.EXHAUSTED_PATTERN_PENALTY, ar.exhausted_numbers, jodi)

\* the confidence section 4.2 prescribes for a score
ConfiguredConfidence(score) ==
    IF score >= CONFIDENCE_THRESHOLDS.HIGH THEN "High"
    ELSE IF score >= CONFIDENCE_THRESHOLDS.MEDIUM THEN "Medium"
    ELSE "Low"

Returned_picks == sc.out[1].summary[1].top_picks_with_confidence

\* C2: every scored candidate's score is the sum over the signal maps that
\* hold it of the signal's configured weight times its magnitude there
C2_WeightedSum ==
    (sc.status = "done" /\ ~sc.out[1].raised) =>
        \A k \in 1..Len(Returned_picks) :
            Returned_picks[k].score = WeightedScore(sc.input, Returned_picks[k].jodi)

\* C3: High iff score >= CONFIDENCE_THRESHOLDS['HIGH'], Medium iff
\* CONFIDENCE_THRESHOLDS['MEDIUM'] <= score < HIGH, Low otherwise
C3_ConfiguredThresholds ==
    (sc.status = "done" /\ ~sc.out[1].raised) =>
        \A k \in 1..Len(Returned_picks) :
            Returned_picks[k].confidence = ConfiguredConfidence(Returned_picks[k].score)

\* the keys of every signal map the analysis results hold
SignalKeys(ar) == UNION {DOMAIN ar[key] : key \in (DOMAIN ar) \ {"hot_digits"}}

\* C13: the candidates that are scored are exactly the union of the keys of
\* all supplied signal maps: one that is a key of the exhausted map alone is
\* scored, and none outside the union is.
C13_CandidatesAreTheUnion ==
    (sc.status = "done" /\ ~sc.out[1].raised) =>
        {Returned_picks[k].jodi : k \in 1..Len(Returned_picks)} = SignalKeys(sc.input)

\* the place of a candidate in the order the union was iterated in
PlaceIn(order, jodi) == CHOOSE k \in 1..Len(order) : order[k] = jodi

\* the candidates ranked before jodi: those of a higher score, and those of
\* an equal score that were iterated earlier
RankedBefore(ar, order, jodi) ==
    {c \in AllJodis(ar) :
        \/ ScoreJodi(ar, c).score > ScoreJodi(ar, jodi).score
        \/ /\ ScoreJodi(ar, c).score = ScoreJodi(ar, jodi).score
           /\ PlaceIn(order, c) < PlaceIn(order, jodi)}

\* C27: the picks generate_daily_summary_and_confidence hands over for the
\* analysis_results the backtester builds (keys due_jodis, exhausted_jodis
\* and the sangam maps) pass the assertions of Backtester.run: the call
\* returns a list of dicts that each hold a 'value' and a 'confidence' key.
C27_BacktestPicksPassAssertions ==
    (sc.status = "done" /\ Has(sc.input, "due_jodis")) =>
        /\ ~sc.out[1].raised
        /\ \A k \in 1..Len(Returned_picks) :
              Has(Returned_picks[k], "value") /\ Has(Returned_picks[k], "confidence")

\* C14: the picks returned are in order of score, non-increasing; picks of
\* equal score keep the order in which the candidate union was iterated; and
\* top_picks_with_confidence holds the first five of that ranking, all of it
\* when the candidates are fewer.
C14_StableRankingTopFive ==
    (sc.status = "done" /\ ~sc.out[1].raised) =>
        /\ Len(Returned_picks) =
              (IF Cardinality(AllJodis(sc.input)) < 5
               THEN Cardinality(AllJodis(sc.input)) ELSE 5)
        /\ \A k \in 1..(Len(Returned_picks) - 1) :
              Returned_picks[k].score >= Returned_picks[k + 1].score
        /\ \A k \in 1..Len(Returned_picks) :
              Cardinality(RankedBefore(sc.input, sc.order, Returned_picks[k].jodi))
                 = k - 1

\* C14 witness: six candidates, two of them of the higher score and iterated
\* last, lead the five picks in their order of iteration; of the four that tie
\* below them the one iterated last is cut
C14_Witness ==
    /\ sc.status = "done"
    /\ ~sc.out[1].raised
    /\ sc.order = <<"11", "22", "33", "44", "66", "55">>
    /\ Len(Returned_picks) = 5
    /\ Returned_picks[1].jodi = "66"
    /\ Returned_picks[2].jodi = "55"
    /\ Returned_picks[1].score = Returned_picks[2].score
    /\ Returned_picks[3].jodi = "11"
    /\ Returned_picks[5].jodi = "33"
    /\ Returned_picks[3].score = Returned_picks[5].score
    /\ Returned_picks[2].score > Returned_picks[3].score

\* the score a result of the scoring gives a candidate, as a one-element
\* sequence, empty when the candidate is not among the picks
ScoreIn(out, jodi) ==
    LET picks == out[1].summary[1].top_picks_with_confidence
        at == {k \in 1..Len(picks) : picks[k].jodi = jodi}
    IN  IF at = {} THEN <<>> ELSE <<picks[CHOOSE k \in at : TRUE].score>>

\* C15: with the signal maps held fixed, raising the weight of one signal
\* never lowers the score of a candidate that is a key of that signal's map,
\* and raises it when the candidate's magnitude there is positive.
C15_MonotonicInEachWeight ==
    (sc.status = "done" /\ sc.before # <<>> /\ ~sc.out[1].raised) =>
        \A jodi \in DOMAIN sc.input[MapOfWeight[sc.raised_weight]] :
            LET was == ScoreIn(sc.before, jodi)
                is  == ScoreIn(sc.out, jodi)
            IN  (was # <<>> /\ is # <<>>) =>
                   /\ is[1] >= was[1]
                   /\ sc.input[MapOfWeight[sc.raised_weight]][jodi] > 0
                         => is[1] > was[1]

-----------------------------------------------------------------------------
(* What the specification says of the Monte Carlo estimator *)

Finished(m) == m.status \in {"returned", "raised"}

ZeroResult(m) ==
    /\ ~m.out[1].raised
    /\ m.out[1].value[1].simulated_hit_rate.num = 0
    /\ m.out[1].value[1].confidence_score.num = 0

\* C6: with num_simulations = 0 (picks and history non-empty) or with no
\* picks, run_simulation returns hit rate 0 and confidence 0 and does not raise
C6_ZeroTrialsOrNoPicks ==
    ( /\ Finished(mc)
      /\ mc.df # <<>>
      /\ \/ mc.current_picks = <<>>
         \/ mc.num_simulations = 0 /\ DropNa(mc.df) # <<>> )
    => ZeroResult(mc)

\* C7: over a history with no rows, or with no non-null jodi, neither the
\* constructor nor run_simulation raises: the result is hit rate 0 with a message
C7_EmptyHistoryIsGraceful ==
    (Finished(mc) /\ DropNa(mc.df) = <<>>)
    => (ZeroResult(mc) /\ mc.out[1].value[1].details # "")

\* the jodis of the history that are drawn from, and those of them picked
Outcomes_of(df) == {k \in 1..Len(df) : df[k] # NullJodi}

PickedOutcomes(df, picks) ==
    {k \in Outcomes_of(df) : \E q \in 1..Len(picks) : picks[q] = df[k]}

\* the float is the fraction n / d
IsFraction(f, n, d) == f.num * d = n * f.den

\* C25: with num_simulations >= 1, picks and a history of jodis,
\* run_simulation makes num_simulations draws from the jodis of the
\* history, counts at most one hit a draw and none for a jodi that is not a
\* pick; it returns simulated_hit_rate = 100 * hits / num_simulations and
\* confidence_score = min(10, rate / 10), the rate within [0, 100] and the
\* confidence within [0, 10]; the rate is 0 when no pick is in the history
\* and 100 when every jodi of the history is a pick.
C25_HitRateAndConfidence ==
    (/\ mc.num_simulations >= 1
     /\ mc.current_picks # <<>>
     /\ Outcomes_of(mc.df) # {}
     /\ mc.status \in {"loop", "returned", "raised"}) =>
        LET hits == mc.simulated_hits
            num  == mc.num_simulations
        IN  /\ mc.status # "raised"
            /\ 0 <= hits /\ hits <= mc.i /\ mc.i <= num
            /\ PickedOutcomes(mc.df, mc.current_picks) = {} => hits = 0
            /\ PickedOutcomes(mc.df, mc.current_picks) = Outcomes_of(mc.df) => hits = mc.i
            /\ mc.status = "returned" =>
                  LET rate == mc.out[1].value[1].simulated_hit_rate
                      conf == mc.out[1].value[1].confidence_score
                  IN  /\ mc.i = num
                      /\ IsFraction(rate, 100 * hits, num)
                      /\ IsFraction(conf, IF hits > num THEN 10 * num ELSE 10 * hits, num)
                      /\ 0 <= rate.num /\ rate.num <= 100 * rate.den
                      /\ 0 <= conf.num /\ conf.num <= 10 * conf.den
                      /\ PickedOutcomes(mc.df, mc.current_picks) = {}
                            => IsFraction(rate, 0, 1)
                      /\ PickedOutcomes(mc.df, mc.current_picks) = Outcomes_of(mc.df)
                            => IsFraction(rate, 100, 1)

\* two draws from a history of a pick and another jodi, one of them a hit:
\* a rate of 50 and a confidence of 5
C25_Witness ==
    /\ mc.status = "returned"
    /\ mc.num_simulations = 2
    /\ mc.current_picks = <<"12">>
    /\ mc.df = <<"12", "34">>
    /\ mc.simulated_hits = 1
    /\ IsFraction(mc.out[1].value[1].simulated_hit_rate, 50, 1)
    /\ IsFraction(mc.out[1].value[1].confidence_score, 5, 1)

\* C8: an analyzer of any of the three families, constructed over a history
\* of zero rows, does not raise, and every signal map its methods return
\* over that history is empty.
C8_ZeroRowsTolerated ==
    an.df = <<>> /\ an.sangam_columns =>
        /\ \A family \in DOMAIN Methods :
              an[family] # <<>> => ~an[family][1].raised
        /\ an.call # <<>> =>
              \A key \in DOMAIN an.call[1].result : an.call[1].result[key] = <<>>

\* C1: at every backtest step i, warmup <= i < len(history), the analyzers
\* are built from exactly the first i rows of the date-sorted history: the
\* training frame has i rows, all dated before the row being predicted, and
\* holds neither that row nor a later one.
C1_TrainIsStrictPrefix ==
    bt.pc = "sliced" =>
        /\ bt.warmup <= bt.i /\ bt.i < Len(bt.df)
        /\ Len(bt.train_df) = bt.i
        /\ \A k \in 1..bt.i : bt.train_df[k] = bt.df[k]
        /\ bt.test_row = <<bt.df[bt.i + 1]>>
        /\ \A k \in 1..Len(bt.train_df) :
              /\ bt.train_df[k].date < bt.test_row[1].date
              /\ \A later \in (bt.i + 1)..Len(bt.df) : bt.train_df[k] # bt.df[later]
        /\ \A k \in 1..(Len(bt.df) - 1) : bt.df[k].date < bt.df[k + 1].date

\* a step in the middle of a history given out of order: a training frame
\* of one row, the row to predict and a later row behind it
C1_Witness ==
    /\ bt.pc = "sliced"
    /\ bt.input # bt.df
    /\ bt.i = 1
    /\ Len(bt.train_df) = 1
    /\ Len(bt.df) = 3

\* the places among the first five picks that hold the actual jodi
Matches(picks, actual) ==
    {k \in 1..Len(picks) : k <= 5 /\ picks[k].value = actual}

\* C12: the confidence tag of a backtest row is the confidence of the
\* highest-ranked of the first five picks that equals the actual jodi, and
\* "Miss" when none of the five does; the tier flags say whether a match
\* stands within the first one, three and five picks.
C12_FirstMatchWins ==
    bt.pc = "recorded" =>
        LET row     == bt.results[Len(bt.results)]
            actual  == bt.test_row[1].jodi
            matches == Matches(bt.picks, actual)
            first   == CHOOSE k \in matches : \A j \in matches : k <= j
        IN  /\ row.actual = actual
            /\ row.confidence =
                  (IF matches = {} THEN "Miss" ELSE bt.picks[first].confidence)
            /\ row.top1_hit = (1 \in matches)
            /\ row.top3_hit = (matches \cap 1..3 # {})
            /\ row.top5_hit = (matches # {})

\* C12 witness: the first pick missed, the second and the third both hold
\* the actual jodi with different confidences, and the row has the second's
C12_Witness ==
    /\ bt.pc = "recorded"
    /\ Len(bt.picks) >= 3
    /\ bt.picks[1].value # bt.test_row[1].jodi
    /\ bt.picks[2].value = bt.test_row[1].jodi
    /\ bt.picks[3].value = bt.test_row[1].jodi
    /\ bt.picks[2].confidence = "High"
    /\ bt.picks[3].confidence = "Low"
    /\ bt.results[1].confidence = "High"
    /\ ~bt.results[1].top1_hit

\* C28: a row of the backtest has top1_hit only with top3_hit and top3_hit
\* only with top5_hit; its confidence is "Miss" exactly when top5_hit is
\* False, and a row with a hit carries the confidence of one of the first
\* five picks that is the actual jodi.
C28_TiersNestAndMissIsNoHit ==
    bt.pc = "recorded" =>
        LET row == bt.results[Len(bt.results)]
        IN  /\ row.top1_hit => row.top3_hit
            /\ row.top3_hit => row.top5_hit
            /\ (row.confidence = "Miss") <=> ~row.top5_hit
            /\ row.top5_hit =>
                  \E k \in 1..Len(bt.picks) :
                      /\ k <= 5
                      /\ bt.picks[k].value = row.actual
                      /\ bt.picks[k].confidence = row.confidence

\* C28 witness: the actual jodi is the fourth pick only; the row is a hit of
\* the top five alone and has the fourth pick's confidence
C28_Witness ==
    /\ bt.pc = "recorded"
    /\ Len(bt.picks) = 5
    /\ \A k \in {1, 2, 3, 5} : bt.picks[k].value # bt.test_row[1].jodi
    /\ bt.picks[4].value = bt.test_row[1].jodi
    /\ bt.picks[4].confidence = "Low"
    /\ bt.results[1].top5_hit /\ ~bt.results[1].top3_hit /\ ~bt.results[1].top1_hit
    /\ bt.results[1].confidence = "Low"

-----------------------------------------------------------------------------
(* What the specification says of the analyzers.  The window of a call is  *)
(* stated over the history the analyzer was built from.                    *)

\* the call a state holds is of this method
CallOf(method) == an.call # <<>> /\ an.call[1].method = method

\* the rows of the history dated within lookback_days of its latest date
WindowRows(h, lookback_days) ==
    {k \in 1..Len(h) : \A j \in 1..Len(h) : h[k].date >= h[j].date - lookback_days}

\* the sum of the values of a dict
RECURSIVE SumOver(_, _)
SumOver(f, S) ==
    IF S = {} THEN 0
    ELSE LET x == CHOOSE y \in S : TRUE IN f[x] + SumOver(f, S \ {x})

\* C16: for every history and every lookback_days the counts of
\* get_jodi_frequency sum to the number of rows of the trailing window, and
\* the counts of get_digit_frequency are non-negative integers whose sum is
\* at most twice that number.
C16_FrequenciesSumToWindow ==
    /\ CallOf("get_jodi_frequency") =>
          LET counts == an.call[1].result.jodi_frequency
          IN  /\ \A j \in DOMAIN counts : counts[j] \in Nat \ {0}
              /\ SumOver(counts, DOMAIN counts)
                    = Cardinality(WindowRows(an.df, an.call[1].lookback_days))
    /\ CallOf("get_digit_frequency") =>
          LET counts == an.call[1].result.digit_frequency
          IN  /\ \A d \in DOMAIN counts : counts[d] \in Nat
              /\ SumOver(counts, DOMAIN counts)
                    <= 2 * Cardinality(WindowRows(an.df, an.call[1].lookback_days))

\* C16 witness: a history of three rows of which the window of one day
\* holds the last two, both of jodi 12
C16_Witness ==
    /\ CallOf("get_jodi_frequency")
    /\ an.call[1].lookback_days = 1
    /\ Len(an.df) = 3
    /\ Cardinality(WindowRows(an.df, 1)) = 2
    /\ an.call[1].result.jodi_frequency = [j \in {"12"} |-> 2]


\* how often a jodi stands in the rows of the window
CountIn(h, lookback_days, jodi) ==
    Cardinality({k \in WindowRows(h, lookback_days) : h[k].jodi = jodi})

\* the jodis of the window
JodisIn(h, lookback_days) == {h[k].jodi : k \in WindowRows(h, lookback_days)}

\* the natural order of the jodis of the histories
JodiNumber(jodi) == IF jodi = "12" THEN 12 ELSE 34

\* C17: get_hot_jodis breaks ties of count by the natural order of the
\* value: a jodi is returned only if no jodi of the window that is not
\* returned has a higher count, or an equal count and a smaller value.
C17_TiesByNaturalOrder ==
    CallOf("get_hot_jodis") =>
        LET hot == an.call[1].result.hot_jodis
            lb  == an.call[1].lookback_days
        IN  \A c \in DOMAIN hot, u \in JodisIn(an.df, lb) \ DOMAIN hot :
               /\ CountIn(an.df, lb, u) <= CountIn(an.df, lb, c)
               /\ CountIn(an.df, lb, u) = CountIn(an.df, lb, c)
                     => JodiNumber(c) < JodiNumber(u)


\* the latest date of the window
LatestIn(h, lookback_days) == MaxOf({h[k].date : k \in WindowRows(h, lookback_days)})

\* the days from the last row of the window that holds the jodi to the
\* latest date of the window
JodiGap(h, lookback_days, jodi) ==
    LatestIn(h, lookback_days)
    - MaxOf({h[k].date : k \in {i \in WindowRows(h, lookback_days) : h[i].jodi = jodi}})

\* the digits as the analyzers name them
DigitNames == [d \in 0..9 |-> <<"0", "1", "2", "3", "4", "5", "6", "7", "8", "9">>[d + 1]]

\* the rows of the window that hold the digit, as open or as close
RowsWithDigit(h, lookback_days, d) ==
    {k \in WindowRows(h, lookback_days) : h[k].open = d \/ h[k].close = d}

DigitGap(h, lookback_days, d) ==
    LatestIn(h, lookback_days)
    - MaxOf({h[k].date : k \in RowsWithDigit(h, lookback_days, d)})

\* C18: every (candidate, gap) that get_due_cycles and
\* get_due_cycles_by_last_appearance return, for jodis and for digits, has
\* gap >= threshold_days, and gap is the number of days from the candidate's
\* last occurrence in the lookback window to the latest date of the window;
\* every candidate of the window with such a gap is returned.
C18_DueGaps ==
    (CallOf("get_due_cycles") \/ CallOf("get_due_cycles_by_last_appearance")) =>
        LET due == an.call[1].result
            lb  == an.call[1].lookback_days
            threshold_days == an.call[1].n
        IN  /\ \A j \in DOMAIN due.due_jodis :
                  /\ j \in JodisIn(an.df, lb)
                  /\ due.due_jodis[j] >= threshold_days
                  /\ due.due_jodis[j] = JodiGap(an.df, lb, j)
            /\ \A j \in JodisIn(an.df, lb) :
                  JodiGap(an.df, lb, j) >= threshold_days => j \in DOMAIN due.due_jodis
            /\ \A d \in 0..9 :
                  IF /\ RowsWithDigit(an.df, lb, d) # {}
                     /\ DigitGap(an.df, lb, d) >= threshold_days
                  THEN /\ DigitNames[d] \in DOMAIN due.due_digits
                       /\ due.due_digits[DigitNames[d]] = DigitGap(an.df, lb, d)
                  ELSE DigitNames[d] \notin DOMAIN due.due_digits

\* C18 witness: jodi 12 last stood three days before the latest date, across
\* a Sunday, and is due by a threshold of one day; the latest jodi is not
C18_Witness ==
    /\ CallOf("get_due_cycles")
    /\ an.call[1].n = 1
    /\ an.call[1].lookback_days = 30
    /\ an.call[1].result.due_jodis = [j \in {"12"} |-> 3]
    /\ an.call[1].result.due_digits = [s \in {"1", "2"} |-> 3]
    /\ an.df[Len(an.df)].jodi = "34"


\* the days with a draw after the day a and up to the day b: Sundays left out
DrawDaysAfter(a, b) == Cardinality({d \in (a + 1)..b : is_kalyan_game_day(d)})

\* a history as the loaders give it: no row on a Sunday
NoClosedDayRow(h) == \A k \in 1..Len(h) : is_kalyan_game_day(h[k].date)

\* C26: over a history without a row on the closed weekday, the days since
\* last appearance that get_due_cycles and get_due_cycles_by_last_appearance
\* return for a jodi or a digit count the days with a draw only: Sundays
\* between the last occurrence and the latest date add nothing, and nothing
\* is due unless that many draw days have passed.
C26_ClosedDaysAreNoAbsence ==
    ((CallOf("get_due_cycles") \/ CallOf("get_due_cycles_by_last_appearance"))
        /\ NoClosedDayRow(an.df)) =>
        LET due == an.call[1].result
            lb  == an.call[1].lookback_days
            latest == LatestIn(an.df, lb)
        IN  /\ \A j \in DOMAIN due.due_jodis :
                  LET draw_days == DrawDaysAfter(latest - JodiGap(an.df, lb, j), latest)
                  IN  due.due_jodis[j] = draw_days /\ draw_days >= an.call[1].n
            /\ \A d \in 0..9 :
                  DigitNames[d] \in DOMAIN due.due_digits =>
                      LET draw_days == DrawDaysAfter(latest - DigitGap(an.df, lb, d), latest)
                      IN  /\ due.due_digits[DigitNames[d]] = draw_days
                          /\ draw_days >= an.call[1].n

CodesIn(h, lookback_days, col) == {h[k][col] : k \in WindowRows(h, lookback_days)}

\* the days from the last row of the window that holds the code to the
\* latest date of the window
CodeGap(h, lookback_days, col, code) ==
    LatestIn(h, lookback_days)
    - MaxOf({h[k].date : k \in {i \in WindowRows(h, lookback_days) : h[i][col] = code}})

\* C20: get_due_sangams follows the absence rule of get_due_cycles: a code
\* is returned only if it stands at least once in the rows of the lookback
\* window, mapped to the days since it last stood there; a code that does not
\* stand in the window is not returned, as a jodi that does not is not.
C20_SangamDueAsJodiDue ==
    CallOf("get_due_sangams") =>
        LET due == an.call[1].result
            lb  == an.call[1].lookback_days
        IN  /\ \A c \in DOMAIN due.due_open_sangams :
                  /\ c \in CodesIn(an.df, lb, "open_sangam")
                  /\ due.due_open_sangams[c] = CodeGap(an.df, lb, "open_sangam", c)
            /\ \A c \in DOMAIN due.due_close_sangams :
                  /\ c \in CodesIn(an.df, lb, "close_sangam")
                  /\ due.due_close_sangams[c] = CodeGap(an.df, lb, "close_sangam", c)


\* the rows of the whole history that hold the code in the column
RowsWithCode(h, col, code) == {k \in 1..Len(h) : h[k][col] = code}

\* the due codes of a column as the claim describes them, from the history
DueCodeIsAbsent(h, L, col, due) ==
    \A c \in DOMAIN due :
        LET latest == MaxOf({h[k].date : k \in 1..Len(h)})
        IN  /\ RowsWithCode(h, col, c) # {}
            /\ \A k \in RowsWithCode(h, col, c) : h[k].date < latest - L
            /\ due[c] = latest - MaxOf({h[k].date : k \in RowsWithCode(h, col, c)})
            /\ due[c] >= L

\* C21: every code get_due_sangams(lookback_days = L) returns has no
\* occurrence dated on or after latest_date - L, is mapped to the days from
\* its last occurrence in the whole history to the latest date, and that gap
\* is at least L.
C21_DueSangamGapAtLeastLookback ==
    CallOf("get_due_sangams") =>
        /\ DueCodeIsAbsent(an.df, an.call[1].lookback_days, "open_sangam",
                           an.call[1].result.due_open_sangams)
        /\ DueCodeIsAbsent(an.df, an.call[1].lookback_days, "close_sangam",
                           an.call[1].result.due_close_sangams)

\* a code last drawn three days before the latest date, with a lookback of one
C21_Witness ==
    /\ CallOf("get_due_sangams")
    /\ an.call[1].lookback_days = 1
    /\ Len(an.df) = 2
    /\ an.df[1].date = 1 /\ an.df[1].open_sangam = "128"
    /\ an.df[2].date = 4 /\ an.df[2].open_sangam = "346"
    /\ an.call[1].result.due_open_sangams = [c \in {"128"} |-> 3]


\* C30: over the same history and with the same lookback_days,
\* threshold_days and consecutive_hits, get_due_cycles of a HotColdAnalyzer
\* and get_due_cycles_by_last_appearance of a TrendWindowAnalyzer return
\* the same due_jodis and due_digits, and get_exhausted_numbers and
\* get_exhausted_numbers_by_streak the same exhausted_jodis and
\* exhausted_digits, each over the rows dated latest_date - lookback_days or
\* later.
C30_DuplicatedSignalsAgree ==
    LET lb == an.call[1].lookback_days
        n  == an.call[1].n
        result == an.call[1].result
        hot_cold == HotColdAnalyzer(an.df).df
        trend == TrendWindowAnalyzer(an.df).df
    IN  /\ CallOf("get_due_cycles") =>
              /\ result = get_due_cycles_by_last_appearance(trend, lb, n)
              /\ DOMAIN result.due_jodis \subseteq JodisIn(an.df, lb)
        /\ CallOf("get_due_cycles_by_last_appearance") =>
              /\ result = get_due_cycles(hot_cold, lb, n)
              /\ DOMAIN result.due_jodis \subseteq JodisIn(an.df, lb)
        /\ CallOf("get_exhausted_numbers") =>
              /\ result = get_exhausted_numbers_by_streak(trend, lb, n)
              /\ DOMAIN result.exhausted_jodis \subseteq JodisIn(an.df, lb)
        /\ CallOf("get_exhausted_numbers_by_streak") =>
              /\ result = get_exhausted_numbers(hot_cold, lb, n)
              /\ DOMAIN result.exhausted_jodis \subseteq JodisIn(an.df, lb)

\* C30 witness: jodi 12 drawn twice, 34 between; the HotColdAnalyzer names
\* 12 and its digits exhausted at two hits, as the TrendWindowAnalyzer does
C30_Witness ==
    /\ CallOf("get_exhausted_numbers")
    /\ an.call[1].n = 2
    /\ Len(an.df) = 3
    /\ an.call[1].result.exhausted_jodis = [j \in {"12"} |-> 2]
    /\ an.call[1].result.exhausted_digits = [s \in {"1", "2"} |-> 2]
    /\ an.call[1].result =
          get_exhausted_numbers_by_streak(TrendWindowAnalyzer(an.df).df,
                                          an.call[1].lookback_days, 2)

-----------------------------------------------------------------------------
(* What the specification says of the backtest loop as a whole             *)

\* C22: no failure of a step aborts Backtester.run; when run is over it has
\* returned one row for every index from warmup to the last of the sorted
\* history, each with the date of its index, so in ascending date order.
C22_NoStepAbortsTheRun ==
    /\ bt.pc # "raised"
    /\ bt.pc = "returned" =>
          /\ Len(bt.results) =
                (IF Len(bt.df) > bt.warmup THEN Len(bt.df) - bt.warmup ELSE 0)
          /\ \A k \in 1..Len(bt.results) :
                bt.results[k].date = bt.df[bt.warmup + k].date


-----------------------------------------------------------------------------
(* What the specification says of the reasons of a pick                    *)

\* the place of a reason in a list, 0 when it is not there
PlacesOf(reasons, reason) == {k \in 1..Len(reasons) : reasons[k] = reason}

\* the reasons stand in the order of the priority list, each at most once
InPriorityOrder(reasons, priority) ==
    /\ \A k \in 1..Len(reasons) : \E p \in 1..Len(priority) : reasons[k] = priority[p]
    /\ \A p \in 1..Len(priority) : Cardinality(PlacesOf(reasons, priority[p])) <= 1
    /\ \A p, q \in 1..Len(priority) :
          \A a \in PlacesOf(reasons, priority[p]), b \in PlacesOf(reasons, priority[q]) :
              p < q => a < b

\* the tag the scoring gives a signal and the term it adds for it
ScoringTags ==
    <<[tag |-> "High Frequency", key |-> "hot_jodis", term |-> 20],
      [tag |-> "Trend-Aligned", key |-> "trend_due_jodis", term |-> 20],
      [tag |-> "Extended Absence", key |-> "due_cycles", term |-> 10],
      [tag |-> "Exhausted Pattern", key |-> "exhausted_numbers", term |-> 0 - 40]>>

\* the terms of the tags a list of reasons holds, summed
RECURSIVE TermsOf(_, _)
TermsOf(reasons, k) ==
    IF k = 0 THEN 0
    ELSE TermsOf(reasons, k - 1)
         + (IF PlacesOf(reasons, ScoringTags[k].tag) # {} THEN ScoringTags[k].term ELSE 0)

\* the five reasons of explain_pick in the order the claim gives them
ExplainPriority ==
    <<"High frequency in recent draws", "Appears in active trend window",
      "Extended absence cycle (statistically due)",
      "Supported by sangam pattern alignment",
      "Over-represented recently (exhaustion risk)">>

ExplainKeys ==
    <<"high_frequency", "trend_window", "extended_absence", "sangam_support",
      "exhausted">>

\* C23: the reasons of a candidate are a projection of the signals that
\* fired for it: a scored jodi carries the tag of a signal iff the jodi is in
\* that signal's map, and its score is the sum of the terms of its tags;
\* explain_pick returns the reason of a signal iff the pick is in its list;
\* in both the reasons stand at most once each and in a fixed order, and a
\* candidate in no signal has none.
C23_ReasonsProjectTheSignals ==
    /\ (sc.status = "done" /\ ~sc.out[1].raised) =>
          \A k \in 1..Len(Returned_picks) :
              LET p == Returned_picks[k]
              IN  /\ InPriorityOrder(p.reasons, [t \in 1..4 |-> ScoringTags[t].tag])
                  /\ \A t \in 1..4 :
                        PlacesOf(p.reasons, ScoringTags[t].tag) # {}
                            <=> Has(sc.input[ScoringTags[t].key], p.jodi)
                  /\ p.score = TermsOf(p.reasons, 4)
    /\ sc.status = "explained" =>
          /\ InPriorityOrder(sc.reasons, ExplainPriority)
          /\ \A t \in 1..5 :
                PlacesOf(sc.reasons, ExplainPriority[t]) # {}
                    <=> /\ ExplainKeys[t] \in DOMAIN sc.signals
                        /\ sc.pick \in {sc.signals[ExplainKeys[t]][i] :
                                            i \in 1..Len(sc.signals[ExplainKeys[t]])}
          /\ (\A key \in DOMAIN sc.signals :
                 \A i \in 1..Len(sc.signals[key]) : sc.signals[key][i] # sc.pick)
                => sc.reasons = <<>>

\* a pick that stands in all five lists, twice in one, with its five reasons
C23_Witness ==
    /\ sc.status = "explained"
    /\ sc.pick = "12"
    /\ DOMAIN sc.signals = SignalNames
    /\ sc.signals["high_frequency"] = <<"12", "12">>
    /\ \A key \in SignalNames : \E i \in 1..Len(sc.signals[key]) : sc.signals[key][i] = "12"
    /\ sc.reasons = ExplainPriority


-----------------------------------------------------------------------------
(* What the specification says of the caller's history                     *)

\* C24: constructing an analyzer, calling its methods and calling the
\* helpers calculate_cycle_gaps and identify_hot_numbers leave the frame the
\* caller supplied as it was: the type of its columns, its rows and their
\* order.
C24_CallerHistoryUnchanged ==
    /\ an.heap[an.df].date_dtype = an.original.date_dtype
    /\ an.heap[an.df].rows = an.original.rows


====
